---- MODULE Spec2Model ----
(***************************************************************************)
(* Cash-basis accounting engine of cwn-hub/accounting-app.                 *)
(*                                                                         *)
(* Money is held in integer cents (Decimal with 2 fractional digits), tax  *)
(* rates in ten-thousandths (Numeric(5,4)), dates as the order-preserving  *)
(* integer year*10000 + month*100 + day.  A NULL id is 0 (ids start at 1   *)
(* and the code tests ids by truthiness), a NULL special_type is "none",   *)
(* an absent Optional[Decimal] is <<>> and a present one is <<v>>.         *)
(***************************************************************************)
EXTENDS Integers, Sequences, FiniteSets, TLC

VARIABLES businesses, accounts, categories, tax_rates, transactions, response,
          report_job

vars == <<businesses, accounts, categories, tax_rates, transactions, response,
          report_job>>
tables == <<businesses, accounts, categories, tax_rates>>

\* ------------------------------------------------------------------------
\* Bounds of the model
\* ------------------------------------------------------------------------
\* transactions created in the tax-split specification
MaxTaxTxns == 1
\* largest gross amount (in cents) of the dense range of the tax-split specification
MaxTaxGross == 40
\* transactions created in the create/update specification
MaxCrudTxns == 1
\* transactions created in the P&L specification
MaxPLTxns == 2
\* transactions created in the balance-sheet specification
MaxBSTxns == 2
\* transactions created in the ledger specification
MaxLedgerTxns == 2
\* accounts of the business in the ledger specification (three are defaults)
MaxAccounts == 4
\* transactions stored in the validation specification
MaxValTxns == 2
\* transactions created in the allocation specification
MaxLineTxns == 2
\* transactions stored in the three-splits specification
MaxSplitTxns == 1
\* transactions created in the month-windows specification
MaxWindowTxns == 2
\* transactions posted in the running-balance specification
MaxBalanceTxns == 3
\* transactions created while balance sheets are computed
MaxRaceTxns == 1
\* transactions accepted in the creation-against-validation specification
MaxAcceptedTxns == 1
\* transactions created in the gross-against-lines specification
MaxMatchedTxns == 2
\* businesses in the default-tax-rate specification
MaxBusinesses == 2
\* tax rates in the default-tax-rate specification (five are configured)
MaxTaxRates == 7

\* ------------------------------------------------------------------------
\* Decimal arithmetic
\* ------------------------------------------------------------------------
\* scale of TaxRate.rate, Numeric(5, 4)
RateScale == 10000

None == <<>>
Some(v) == <<v>>
IsNone(o) == o = <<>>
Value(o) == o[1]

Date(y, m, d) == y * 10000 + m * 100 + d

\* the same quotient rounded half-up, as section 4.1 of the specification words it
QuantizeHalfUp(n, d) ==
    IF 2 * (n % d) >= d THEN (n \div d) + 1 ELSE n \div d
\* Decimal.quantize(Decimal("0.01")) of the quotient n/d (n >= 0, d > 0, in
\* cents) under the default decimal context, whose rounding is
\* ROUND_HALF_EVEN
Quantize(n, d) ==
    LET q == n \div d
        r == n % d
    IN  IF 2 * r < d THEN q
        ELSE IF 2 * r > d THEN q + 1
        ELSE IF q % 2 = 0 THEN q ELSE q + 1

\* ------------------------------------------------------------------------
\* crud.py: tax calculation service
\* ------------------------------------------------------------------------
\* tax_rate is a TaxRate row [rate |-> ..] or None
\* variant: the rate == 0 test left out
calculate_tax_amount_no_zero_check(gross_amount, tax_rate) ==
    IF IsNone(tax_rate) THEN 0
    ELSE Quantize(gross_amount * RateScale, RateScale + Value(tax_rate).rate)
calculate_tax_amount(gross_amount, tax_rate) ==
    IF IsNone(tax_rate) \/ Value(tax_rate).rate = 0 THEN 0
    ELSE Quantize(gross_amount * RateScale, RateScale + Value(tax_rate).rate)

calculate_net_amount(gross_amount, tax_amount) == gross_amount - tax_amount

get_tax_rate(tax_rate_id) ==
    IF tax_rate_id \in DOMAIN tax_rates THEN Some(tax_rates[tax_rate_id]) ELSE None

\* ------------------------------------------------------------------------
\* Tables after create_business plus the tax rates and accounts of the
\* scenarios.  Business 1 exists; no other business id is ever created.
\* ------------------------------------------------------------------------
BusinessIds == {1, 2}

InitBusinesses == (1 :> [currency |-> "CHF"])

\* create_default_accounts, then update_account of Bank Account #1 to an
\* opening balance of 1000.00
InitAccounts ==
    (1 :> [business_id |-> 1, type |-> "bank", opening_balance |-> 100000]) @@
    (2 :> [business_id |-> 1, type |-> "bank", opening_balance |-> 0]) @@
    (3 :> [business_id |-> 1, type |-> "credit_card", opening_balance |-> 0])

\* create_default_categories, reduced to two income heads, one COGS head and
\* one expense head
InitCategories ==
    (1 :> [business_id |-> 1, code |-> "head_1", type |-> "income"]) @@
    (2 :> [business_id |-> 1, code |-> "head_2", type |-> "income"]) @@
    (3 :> [business_id |-> 1, code |-> "head_6", type |-> "cogs"]) @@
    (4 :> [business_id |-> 1, code |-> "head_12", type |-> "expense"])

\* create_tax_rate leaves is_default at its column default
InitTaxRates ==
    (1 :> [business_id |-> 1, rate |-> 810, is_default |-> FALSE]) @@
    (2 :> [business_id |-> 1, rate |-> 6000, is_default |-> FALSE]) @@
    (3 :> [business_id |-> 1, rate |-> 0, is_default |-> FALSE]) @@
    (4 :> [business_id |-> 1, rate |-> 250, is_default |-> FALSE]) @@
    (5 :> [business_id |-> 1, rate |-> 9999, is_default |-> FALSE])

NoResponse == [op |-> "none", status |-> "none", body |-> <<>>]

\* no balance sheet is being computed
IdleJob ==
    [status |-> "idle", business_id |-> 0, year |-> 0,
     opening_retained_earnings |-> 0, months |-> <<>>,
     started_at |-> 0, before |-> <<>>]

Init ==
    /\ businesses = InitBusinesses
    /\ accounts = InitAccounts
    /\ categories = InitCategories
    /\ tax_rates = InitTaxRates
    /\ transactions = <<>>
    /\ response = NoResponse
    /\ report_job = IdleJob

\* ------------------------------------------------------------------------
\* crud.py: transactions
\* ------------------------------------------------------------------------
\* the autoincremented primary key of the next row of a table
NextId(table) == Len(table) + 1

\* routers/accounts.py create_account: the business must exist, then
\* crud.create_account stores the row
create_account(business_id, account) ==
    /\ business_id \in DOMAIN businesses
    /\ accounts' = Append(accounts, [business_id |-> business_id,
                                     type |-> account.type,
                                     opening_balance |-> account.opening_balance])
    /\ response' = [op |-> "create_account", status |-> "ok",
                    body |-> NextId(accounts)]
    /\ UNCHANGED <<businesses, categories, tax_rates, transactions, report_job>>

Line(alloc) ==
    [category_id |-> alloc.category_id,
     special_type |-> alloc.special_type,
     amount |-> alloc.amount]

\* the row create_transaction stores for the payload t (a TransactionCreate)
NewTransaction(account_id, t) ==
    LET tax_rate == IF t.tax_rate_id # 0 THEN get_tax_rate(t.tax_rate_id) ELSE None
        tax_amount == IF ~IsNone(t.tax_amount) THEN Value(t.tax_amount)
                      ELSE calculate_tax_amount(t.gross_amount, tax_rate)
        net_amount == IF ~IsNone(t.net_amount) THEN Value(t.net_amount)
                      ELSE calculate_net_amount(t.gross_amount, tax_amount)
    IN  [id |-> NextId(transactions),
         account_id |-> account_id,
         date |-> t.date,
         direction |-> t.direction,
         gross_amount |-> t.gross_amount,
         tax_rate_id |-> t.tax_rate_id,
         tax_amount |-> tax_amount,
         net_amount |-> net_amount,
         is_reconciled |-> FALSE,
         lines |-> [i \in 1..Len(t.allocations) |-> Line(t.allocations[i])]]

RECURSIVE SumAllocations(_)
SumAllocations(allocations) ==
    IF allocations = <<>> THEN 0
    ELSE Head(allocations).amount + SumAllocations(Tail(allocations))

Abs(x) == IF x < 0 THEN -x ELSE x

\* schemas.TransactionAllocation: amount > 0
AllocationValid(alloc) == alloc.amount > 0

\* the checks shared by TransactionCreate.validate_allocations and
\* TransactionUpdate.validate_allocations: the amounts sum to gross within
\* 0.01 and every allocation names a category or a special type
AllocationsMatch(gross_amount, allocations) ==
    /\ Abs(SumAllocations(allocations) - gross_amount) <= 1
    /\ \A i \in DOMAIN allocations :
           ~(allocations[i].category_id = 0 /\ allocations[i].special_type = "none")

\* a payload that constructs as a schemas.TransactionCreate
TransactionCreateValid(t) ==
    /\ t.gross_amount >= 0
    /\ \A i \in DOMAIN t.allocations : AllocationValid(t.allocations[i])
    /\ t.allocations # <<>>
    /\ AllocationsMatch(t.gross_amount, t.allocations)

\* a payload that constructs as a schemas.TransactionUpdate
TransactionUpdateValid(u) ==
    /\ IF IsNone(u.gross_amount) THEN TRUE ELSE Value(u.gross_amount) >= 0
    /\ IF IsNone(u.allocations) THEN TRUE
       ELSE /\ \A i \in DOMAIN Value(u.allocations) :
                   AllocationValid(Value(u.allocations)[i])
            /\ Value(u.allocations) # <<>>
            /\ IF IsNone(u.gross_amount) THEN TRUE
               ELSE AllocationsMatch(Value(u.gross_amount), Value(u.allocations))

create_transaction(account_id, t) ==
    /\ TransactionCreateValid(t)
    /\ account_id \in DOMAIN accounts
    /\ t.tax_rate_id \in DOMAIN tax_rates \cup {0}
    /\ transactions' = Append(transactions, NewTransaction(account_id, t))
    /\ response' = [op |-> "create_transaction", status |-> "ok",
                    body |-> NextId(transactions)]
    /\ UNCHANGED <<tables, report_job>>

\* the row update_transaction leaves for the payload u (a TransactionUpdate)
UpdatedTransaction(txn, u) ==
    LET moved == [txn EXCEPT
            !.date = IF IsNone(u.date) THEN @ ELSE Value(u.date),
            !.direction = IF IsNone(u.direction) THEN @ ELSE Value(u.direction),
            !.tax_rate_id = IF IsNone(u.tax_rate_id) THEN @ ELSE Value(u.tax_rate_id),
            !.is_reconciled = IF IsNone(u.is_reconciled) THEN @ ELSE Value(u.is_reconciled)]
        tax_rate == IF moved.tax_rate_id # 0 THEN get_tax_rate(moved.tax_rate_id)
                    ELSE None
        tax_amount == calculate_tax_amount(Value(u.gross_amount), tax_rate)
        priced == IF IsNone(u.gross_amount) THEN moved
                  ELSE [moved EXCEPT
                            !.gross_amount = Value(u.gross_amount),
                            !.tax_amount = tax_amount,
                            !.net_amount = calculate_net_amount(Value(u.gross_amount),
                                                                tax_amount)]
    IN  IF IsNone(u.allocations) THEN priced
        ELSE [priced EXCEPT
                  !.lines = [i \in 1..Len(Value(u.allocations)) |->
                                 Line(Value(u.allocations)[i])]]

update_transaction(transaction_id, u) ==
    /\ TransactionUpdateValid(u)
    /\ transaction_id \in DOMAIN transactions
    /\ IF IsNone(u.tax_rate_id) THEN TRUE ELSE Value(u.tax_rate_id) \in DOMAIN tax_rates
    /\ transactions' = [transactions EXCEPT
                            ![transaction_id] = UpdatedTransaction(@, u)]
    /\ response' = [op |-> "update_transaction", status |-> "ok",
                    body |-> transaction_id]
    /\ UNCHANGED <<tables, report_job>>

\* crud.validate_transaction_allocations: is_valid of the returned pair
validate_transaction_allocations(gross_amount, allocations) ==
    /\ allocations # <<>>
    /\ Abs(SumAllocations(allocations) - gross_amount) <= 1
    /\ \A i \in DOMAIN allocations :
           ~(allocations[i].category_id = 0 /\ allocations[i].special_type = "none")

\* routers/transactions.py create_transaction: 422 unless the allocations
\* validate against the gross amount
router_create_transaction(account_id, t) ==
    /\ TransactionCreateValid(t)
    /\ validate_transaction_allocations(t.gross_amount, t.allocations)
    /\ create_transaction(account_id, t)

\* routers/transactions.py update_transaction: allocations, when provided,
\* validate against updates.gross_amount or transaction.gross_amount (a
\* gross of 0 is falsy and gives way to the stored one)
router_update_transaction(transaction_id, u) ==
    /\ TransactionUpdateValid(u)
    /\ transaction_id \in DOMAIN transactions
    /\ IF IsNone(u.allocations) THEN TRUE
       ELSE LET gross == IF IsNone(u.gross_amount) THEN transactions[transaction_id].gross_amount
                         ELSE IF Value(u.gross_amount) = 0
                              THEN transactions[transaction_id].gross_amount
                         ELSE Value(u.gross_amount)
            IN  validate_transaction_allocations(gross, Value(u.allocations))
    /\ update_transaction(transaction_id, u)

\* ------------------------------------------------------------------------
\* Specification of the tax split: transactions created without
\* caller-supplied tax or net, over a dense range of small gross amounts,
\* the amounts of the documented scenarios, and every configured rate
\* ------------------------------------------------------------------------
TaxGrossAmounts == (0..MaxTaxGross) \cup {5405, 10810, 108100}

TaxPayload(gross, rate_id) ==
    [date |-> Date(2024, 1, 15), direction |-> "in", gross_amount |-> gross,
     tax_rate_id |-> rate_id, tax_amount |-> None, net_amount |-> None,
     allocations |-> <<[category_id |-> 1, special_type |-> "none",
                       amount |-> IF gross = 0 THEN 1 ELSE gross]>>]

CreateTaxTransaction ==
    /\ Len(transactions) < MaxTaxTxns
    /\ \E gross \in TaxGrossAmounts, rate_id \in DOMAIN tax_rates \cup {0} :
           create_transaction(1, TaxPayload(gross, rate_id))

NextTax == CreateTaxTransaction

SpecTax == Init /\ [][NextTax]_vars

\* the stored rate of a transaction, None when it has no tax rate
RateOf(txn) == IF txn.tax_rate_id # 0 THEN get_tax_rate(txn.tax_rate_id) ELSE None
HasPositiveRate(txn) == ~IsNone(RateOf(txn)) /\ Value(RateOf(txn)).rate > 0

\* v is a nearest cent of n/d (either neighbour on an exact tie)
IsNearestCent(v, n, d) == 2 * (v * d - n) <= d /\ 2 * (n - v * d) <= d

Stored == {transactions[i] : i \in DOMAIN transactions}

\* C2: a transaction created with a rate r, 0 < r < 1, and no caller-supplied
\* tax or net stores net_amount = round2(gross / (1 + r)) and
\* tax_amount = gross - net_amount (round2 read as any nearest cent, so that
\* the statement does not depend on how a tie is broken).
C2_NetIsRoundedQuotient ==
    \A txn \in Stored :
        HasPositiveRate(txn) =>
            /\ IsNearestCent(txn.net_amount, txn.gross_amount * RateScale,
                             RateScale + Value(RateOf(txn)).rate)
            /\ txn.tax_amount = txn.gross_amount - txn.net_amount

\* C4: the stored (tax, net) of a transaction created without caller-supplied
\* tax or net satisfies net + tax = gross, net >= 0 and tax >= 0; with no
\* rate or a rate of exactly 0, tax = 0 and net = gross.
C4_TaxSplitIdentity ==
    \A txn \in Stored :
        /\ txn.net_amount + txn.tax_amount = txn.gross_amount
        /\ txn.net_amount >= 0
        /\ txn.tax_amount >= 0
        /\ ~HasPositiveRate(txn) =>
               (txn.tax_amount = 0 /\ txn.net_amount = txn.gross_amount)

\* a split of 108.10 at a positive rate with both parts non-zero
C4_Witness ==
    \E txn \in Stored :
        /\ HasPositiveRate(txn)
        /\ txn.gross_amount = 10810
        /\ txn.tax_amount > 0
        /\ txn.net_amount > 0

\* C5: the rounded value of gross / (1 + rate) (which create_transaction
\* stores as tax_amount) is the nearest cent, an exact tie rounded up.
C5_RoundingIsHalfUp ==
    \A txn \in Stored :
        HasPositiveRate(txn) =>
            txn.tax_amount = QuantizeHalfUp(txn.gross_amount * RateScale,
                                            RateScale + Value(RateOf(txn)).rate)

\* ------------------------------------------------------------------------
\* Specification of transaction creation and update: creates with and
\* without caller-supplied tax_amount / net_amount, updates of gross_amount,
\* direction, tax_rate_id and is_reconciled
\* ------------------------------------------------------------------------
CrudPayload(gross, rate_id, tax, net) ==
    [date |-> Date(2024, 1, 15), direction |-> "in", gross_amount |-> gross,
     tax_rate_id |-> rate_id, tax_amount |-> tax, net_amount |-> net,
     allocations |-> <<[category_id |-> 1, special_type |-> "none", amount |-> gross]>>]

CrudUpdate(direction, gross, rate_id, reconciled) ==
    [date |-> None, direction |-> direction, gross_amount |-> gross,
     tax_rate_id |-> rate_id, is_reconciled |-> reconciled, allocations |-> None]

CreateCrudTransaction ==
    /\ Len(transactions) < MaxCrudTxns
    /\ \E gross \in {4, 10810}, rate_id \in {0, 1},
          tax \in {None, Some(810)}, net \in {None, Some(10000)} :
           create_transaction(1, CrudPayload(gross, rate_id, tax, net))

UpdateCrudTransaction ==
    \E id \in DOMAIN transactions, direction \in {None, Some("out")},
       gross \in {None, Some(5405)}, rate_id \in {None, Some(2)},
       reconciled \in {None, Some(TRUE)} :
        update_transaction(id, CrudUpdate(direction, gross, rate_id, reconciled))

NextCrud == CreateCrudTransaction \/ UpdateCrudTransaction

SpecCrud == Init /\ [][NextCrud]_vars

\* C3: after any sequence of create_transaction and update_transaction
\* calls, every stored transaction satisfies
\* gross_amount = net_amount + tax_amount.
C3_GrossIsNetPlusTax ==
    \A txn \in Stored : txn.gross_amount = txn.net_amount + txn.tax_amount

\* ------------------------------------------------------------------------
\* reports.py: queries shared by the report services
\* ------------------------------------------------------------------------
RECURSIVE SumOver(_, _)
\* sum of f[x] over the finite set S
SumOver(f, S) ==
    IF S = {} THEN 0
    ELSE LET x == CHOOSE y \in S : TRUE IN f[x] + SumOver(f, S \ {x})

\* every transaction line, as <<transaction id, position in its lines>>
LineRefs ==
    UNION {{<<i, j>> : j \in DOMAIN transactions[i].lines} : i \in DOMAIN transactions}
LineOf(r) == transactions[r[1]].lines[r[2]]
SumAmounts(refs) == SumOver([r \in refs |-> LineOf(r).amount], refs)

\* Transaction.join(Account).filter(Account.business_id == business_id)
TransactionsOfBusiness(business_id) ==
    {i \in DOMAIN transactions : accounts[transactions[i].account_id].business_id = business_id}

\* the date filter of the monthly queries: [first of month, first of next
\* month), and [Dec 1, Dec 31] for month 12
\* variant: month 12 half-open as well, ending before Dec 31
InMonthWindow_half_open(d, year, month) ==
    LET start_date == Date(year, month, 1)
        end_date == IF month = 12 THEN Date(year, 12, 31) ELSE Date(year, month + 1, 1)
    IN  d >= start_date /\ d < end_date
InMonthWindow(d, year, month) ==
    LET start_date == Date(year, month, 1)
        end_date == IF month = 12 THEN Date(year, 12, 31) ELSE Date(year, month + 1, 1)
    IN  d >= start_date /\ (IF month # 12 THEN d < end_date ELSE d <= end_date)

\* TransactionLine.join(Transaction).join(Account) restricted to the month
MonthLines(business_id, year, month) ==
    {r \in LineRefs : /\ r[1] \in TransactionsOfBusiness(business_id)
                      /\ InMonthWindow(transactions[r[1]].date, year, month)}

\* ------------------------------------------------------------------------
\* reports.py: PLReportService
\* ------------------------------------------------------------------------
CategoriesOfType(business_id, type) ==
    {c \in DOMAIN categories : /\ categories[c].business_id = business_id
                               /\ categories[c].type = type}

\* one type bucket of _calculate_month: the total and the sparse
\* by_category map, keyed by category code, over the lines allocated to cats
Bucket(lines, cats) ==
    LET hits == {r \in lines : LineOf(r).category_id # 0 /\ LineOf(r).category_id \in cats}
        codes == {categories[LineOf(r).category_id].code : r \in hits}
    IN  [total |-> SumAmounts(hits),
         by_category |->
             [code \in codes |->
                 SumAmounts({r \in hits : categories[LineOf(r).category_id].code = code})]]

\* variant: gross profit taken as income alone
calculate_month_no_cogs(business_id, year, month, income_cats, cogs_cats, expense_cats) ==
    LET lines == MonthLines(business_id, year, month)
        income == Bucket(lines, income_cats)
        cogs == Bucket(lines, cogs_cats)
        expenses == Bucket(lines, expense_cats)
    IN  [income |-> income,
         cogs |-> [total |-> cogs.total, by_category |-> cogs.by_category,
                   inventory_adjustment |-> 0],
         expenses |-> expenses,
         gross_profit |-> income.total,
         net_profit |-> income.total - expenses.total]
calculate_month(business_id, year, month, income_cats, cogs_cats, expense_cats) ==
    LET lines == MonthLines(business_id, year, month)
        income == Bucket(lines, income_cats)
        cogs == Bucket(lines, cogs_cats)
        expenses == Bucket(lines, expense_cats)
        inventory_adjustment == 0
        cogs_total == cogs.total + inventory_adjustment
        gross_profit == income.total - cogs_total
    IN  [income |-> income,
         cogs |-> [total |-> cogs_total, by_category |-> cogs.by_category,
                   inventory_adjustment |-> inventory_adjustment],
         expenses |-> expenses,
         gross_profit |-> gross_profit,
         net_profit |-> gross_profit - expenses.total]

\* the per-category accumulation of _calculate_ytd: a code missing from the
\* running map starts at 0, then the month's amount is added
\* variant: a later month's amount replaces the running one
MergeOverwrite(acc, by_category) ==
    [code \in DOMAIN acc \cup DOMAIN by_category |->
        IF code \in DOMAIN by_category THEN by_category[code] ELSE acc[code]]
MergeByCategory(acc, by_category) ==
    [code \in DOMAIN acc \cup DOMAIN by_category |->
        (IF code \in DOMAIN acc THEN acc[code] ELSE 0)
        + (IF code \in DOMAIN by_category THEN by_category[code] ELSE 0)]

EmptyMap == [code \in {} |-> 0]

YtdZero ==
    [income |-> [total |-> 0, by_category |-> EmptyMap],
     cogs |-> [total |-> 0, by_category |-> EmptyMap, inventory_adjustment |-> 0],
     expenses |-> [total |-> 0, by_category |-> EmptyMap],
     gross_profit |-> 0,
     net_profit |-> 0]

\* one iteration of the loop of _calculate_ytd
YtdAdd(ytd, month_data) ==
    [income |->
        [total |-> ytd.income.total + month_data.income.total,
         by_category |-> MergeByCategory(ytd.income.by_category,
                                         month_data.income.by_category)],
     cogs |->
        [total |-> ytd.cogs.total + month_data.cogs.total,
         by_category |-> MergeByCategory(ytd.cogs.by_category,
                                         month_data.cogs.by_category),
         inventory_adjustment |-> ytd.cogs.inventory_adjustment
                                  + month_data.cogs.inventory_adjustment],
     expenses |->
        [total |-> ytd.expenses.total + month_data.expenses.total,
         by_category |-> MergeByCategory(ytd.expenses.by_category,
                                         month_data.expenses.by_category)],
     gross_profit |-> ytd.gross_profit + month_data.gross_profit,
     net_profit |-> ytd.net_profit + month_data.net_profit]

RECURSIVE YtdUpTo(_, _)
\* the running ytd after the months 1..k of months_data
YtdUpTo(months_data, k) ==
    IF k = 0 THEN YtdZero ELSE YtdAdd(YtdUpTo(months_data, k - 1), months_data[k])

calculate_ytd(months_data) == YtdUpTo(months_data, 12)

\* PLReportService.generate_report: no lookup of the business
PLReport(business_id, year) ==
    LET income_cats == CategoriesOfType(business_id, "income")
        cogs_cats == CategoriesOfType(business_id, "cogs")
        expense_cats == CategoriesOfType(business_id, "expense")
        months == [month \in 1..12 |->
                      calculate_month(business_id, year, month,
                                      income_cats, cogs_cats, expense_cats)]
    IN  [business_id |-> business_id, year |-> year, currency |-> "CHF",
         months |-> months, ytd |-> calculate_ytd(months)]

\* routers/reports.py get_pl_report (format = json)
generate_pl(business_id, year) ==
    /\ response' = [op |-> "generate_pl", status |-> "ok",
                    body |-> PLReport(business_id, year)]
    /\ UNCHANGED <<tables, transactions, report_job>>

\* ------------------------------------------------------------------------
\* reports.py: BalanceSheetService
\* ------------------------------------------------------------------------
IsLeapYear(year) == (year % 4 = 0 /\ year % 100 # 0) \/ (year % 400 = 0)

\* the as-of date generate_report picks for a month: its last calendar day
AsOfDate(year, month) ==
    IF month = 12 THEN Date(year, 12, 31)
    ELSE IF month \in {1, 3, 5, 7, 8, 10, 12} THEN Date(year, month, 31)
    ELSE IF month = 2 THEN (IF IsLeapYear(year) THEN Date(year, month, 29)
                            ELSE Date(year, month, 28))
    ELSE Date(year, month, 30)

AccountsOfBusiness(business_id) ==
    {a \in DOMAIN accounts : accounts[a].business_id = business_id}

\* _calculate_opening_retained_earnings: bank opening balances minus
\* credit-card opening balances
OpeningRetainedEarnings(business_id, year) ==
    LET own == AccountsOfBusiness(business_id)
        signed == [a \in own |->
                      IF accounts[a].type = "bank" THEN accounts[a].opening_balance
                      ELSE IF accounts[a].type = "credit_card"
                           THEN -accounts[a].opening_balance
                      ELSE 0]
    IN  SumOver(signed, own)

SignedGross(txn) == IF txn.direction = "in" THEN txn.gross_amount ELSE -txn.gross_amount

\* opening balance plus the signed gross of the account's transactions
\* dated on or before as_of_date
\* variant: the date filter left out
AccountBalance_all_dates(account_id, as_of_date) ==
    LET own == {i \in DOMAIN transactions : transactions[i].account_id = account_id}
    IN  accounts[account_id].opening_balance
        + SumOver([i \in own |-> SignedGross(transactions[i])], own)
AccountBalance(account_id, as_of_date) ==
    LET own == {i \in DOMAIN transactions :
                   /\ transactions[i].account_id = account_id
                   /\ transactions[i].date <= as_of_date}
    IN  accounts[account_id].opening_balance
        + SumOver([i \in own |-> SignedGross(transactions[i])], own)

\* the cumulative sum of the business's lines of one special type
SpecialTotal(business_id, as_of_date, special_type) ==
    SumAmounts({r \in LineRefs :
                   /\ r[1] \in TransactionsOfBusiness(business_id)
                   /\ transactions[r[1]].date <= as_of_date
                   /\ LineOf(r).special_type = special_type})

CardLiability(balance) == IF balance < 0 THEN -balance ELSE 0

RECURSIVE CreditCardBalanceUpTo(_, _, _)
\* the variable credit_card_balance after the loop has visited the accounts
\* 1..k in id order: each credit card assigns it, none accumulates
CreditCardBalanceUpTo(business_id, as_of_date, k) ==
    IF k = 0 THEN 0
    ELSE IF accounts[k].business_id = business_id /\ accounts[k].type = "credit_card"
         THEN CardLiability(AccountBalance(k, as_of_date))
    ELSE CreditCardBalanceUpTo(business_id, as_of_date, k - 1)

\* _calculate_net_profit_ytd: income - cogs - expenses over the lines dated
\* in [Jan 1 of year, as_of_date]
\* variant: every line dated on or before as_of_date, earlier years included
NetProfitYtd_from_the_start(business_id, year, as_of_date) ==
    LET lines == {r \in LineRefs :
                     /\ r[1] \in TransactionsOfBusiness(business_id)
                     /\ transactions[r[1]].date <= as_of_date
                     /\ LineOf(r).category_id # 0}
        Of(type) == SumAmounts({r \in lines :
                        LineOf(r).category_id \in CategoriesOfType(business_id, type)})
    IN  Of("income") - Of("cogs") - Of("expense")
NetProfitYtd(business_id, year, as_of_date) ==
    LET lines == {r \in LineRefs :
                     /\ r[1] \in TransactionsOfBusiness(business_id)
                     /\ transactions[r[1]].date >= Date(year, 1, 1)
                     /\ transactions[r[1]].date <= as_of_date
                     /\ LineOf(r).category_id # 0}
        Of(type) == SumAmounts({r \in lines :
                        LineOf(r).category_id \in CategoriesOfType(business_id, type)})
    IN  Of("income") - Of("cogs") - Of("expense")

\* the VAT liability of a snapshot: tax on IN transactions, minus tax on OUT
\* transactions and TAX_PAYMENT lines, floored at 0
\* variant: an overpayment kept as a negative liability
TaxPayable_unfloored(business_id, as_of_date) ==
    LET txns == {i \in TransactionsOfBusiness(business_id) :
                    transactions[i].date <= as_of_date}
        ins == {i \in txns : transactions[i].direction = "in"}
        outs == txns \ ins
        tax_collected == SumOver([i \in ins |-> transactions[i].tax_amount], ins)
        tax_paid == SumOver([i \in outs |-> transactions[i].tax_amount], outs)
                    + SpecialTotal(business_id, as_of_date, "tax_payment")
    IN  tax_collected - tax_paid
\* variant: the TAX_PAYMENT lines left out of tax_paid
TaxPayable_no_payments(business_id, as_of_date) ==
    LET txns == {i \in TransactionsOfBusiness(business_id) :
                    transactions[i].date <= as_of_date}
        ins == {i \in txns : transactions[i].direction = "in"}
        outs == txns \ ins
        tax_collected == SumOver([i \in ins |-> transactions[i].tax_amount], ins)
        tax_paid == SumOver([i \in outs |-> transactions[i].tax_amount], outs)
        tax_payable == tax_collected - tax_paid
    IN  IF tax_payable < 0 THEN 0 ELSE tax_payable
TaxPayable(business_id, as_of_date) ==
    LET txns == {i \in TransactionsOfBusiness(business_id) :
                    transactions[i].date <= as_of_date}
        ins == {i \in txns : transactions[i].direction = "in"}
        outs == txns \ ins
        tax_collected == SumOver([i \in ins |-> transactions[i].tax_amount], ins)
        tax_paid == SumOver([i \in outs |-> transactions[i].tax_amount], outs)
                    + SpecialTotal(business_id, as_of_date, "tax_payment")
        tax_payable == tax_collected - tax_paid
    IN  IF tax_payable < 0 THEN 0 ELSE tax_payable

calculate_snapshot(business_id, year, month, as_of_date, opening_retained_earnings) ==
    LET own == AccountsOfBusiness(business_id)
        banks == {a \in own : accounts[a].type = "bank"}
        cards == {a \in own : accounts[a].type = "credit_card"}
        bank_balance == SumOver([a \in banks |-> AccountBalance(a, as_of_date)], banks)
        inventory_value == 0
        asset_purchases == SpecialTotal(business_id, as_of_date, "asset_purchase")
        total_assets == bank_balance + inventory_value + asset_purchases
        credit_card_balance == CreditCardBalanceUpTo(business_id, as_of_date, Len(accounts))
        loans == SpecialTotal(business_id, as_of_date, "loan_in")
        loan_repayments == SpecialTotal(business_id, as_of_date, "loan_repayment")
        net_loans == loans - loan_repayments
        tax_payable == TaxPayable(business_id, as_of_date)
        income_tax_paid == SpecialTotal(business_id, as_of_date, "income_tax")
        payroll_tax_paid == SpecialTotal(business_id, as_of_date, "payroll_tax")
        total_liabilities == credit_card_balance + net_loans + tax_payable
                             + income_tax_paid + payroll_tax_paid
        capital == SpecialTotal(business_id, as_of_date, "capital")
        drawings == SpecialTotal(business_id, as_of_date, "drawings")
        current_year_profit == NetProfitYtd(business_id, year, as_of_date)
        retained_earnings == opening_retained_earnings + current_year_profit
        total_equity == capital + retained_earnings - drawings
    IN  [as_of_date |-> as_of_date,
         assets |->
            [total |-> total_assets,
             bank_accounts |->
                [total |-> bank_balance,
                 accounts |-> [a \in banks |-> AccountBalance(a, as_of_date)]],
             inventory |-> inventory_value,
             asset_purchases |-> asset_purchases],
         liabilities |->
            [total |-> total_liabilities,
             credit_cards |->
                [total |-> credit_card_balance,
                 accounts |-> [a \in cards |->
                     [balance |-> AccountBalance(a, as_of_date),
                      liability |-> CardLiability(AccountBalance(a, as_of_date))]]],
             loans |-> [received |-> loans, repayments |-> loan_repayments,
                        net |-> net_loans],
             tax_payable |->
                [vat |-> tax_payable, income_tax |-> income_tax_paid,
                 payroll_tax |-> payroll_tax_paid,
                 total |-> tax_payable + income_tax_paid + payroll_tax_paid]],
         equity |->
            [total |-> total_equity,
             capital |-> capital,
             retained_earnings |-> retained_earnings,
             current_year_profit |-> current_year_profit,
             drawings |-> drawings]]

\* the validation entry generate_report derives from a month's snapshot
\* variant: net assets taken from equity instead of being computed
ValidationEntryAssumeBalanced(data) ==
    [net_assets |-> data.equity.total, equity |-> data.equity.total, balanced |-> TRUE]
ValidationEntry(data) ==
    LET net_assets == data.assets.total - data.liabilities.total
        equity == data.equity.total
    IN  [net_assets |-> net_assets, equity |-> equity, balanced |-> net_assets = equity]

BalanceSheetReport(business_id, year) ==
    LET opening_retained_earnings == OpeningRetainedEarnings(business_id, year)
        months == [month \in 1..12 |->
                      calculate_snapshot(business_id, year, month,
                                         AsOfDate(year, month),
                                         opening_retained_earnings)]
    IN  [business_id |-> business_id, year |-> year,
         currency |-> IF business_id \in DOMAIN businesses
                      THEN businesses[business_id].currency ELSE "CHF",
         months |-> months,
         validation |-> [month \in 1..12 |-> ValidationEntry(months[month])]]

\* raise ValueError(f"Business {business_id} not found")
NotFound(business_id) == [business_id |-> business_id]

\* variant: no lookup of the business, as in PLReportService
generate_balance_sheet_no_lookup(business_id, year) ==
    /\ response' = [op |-> "generate_balance_sheet", status |-> "ok",
                    body |-> BalanceSheetReport(business_id, year)]
    /\ UNCHANGED <<tables, transactions, report_job>>
generate_balance_sheet(business_id, year) ==
    /\ response' = IF business_id \notin DOMAIN businesses
                   THEN [op |-> "generate_balance_sheet", status |-> "not_found",
                         body |-> NotFound(business_id)]
                   ELSE [op |-> "generate_balance_sheet", status |-> "ok",
                         body |-> BalanceSheetReport(business_id, year)]
    /\ UNCHANGED <<tables, transactions, report_job>>

\* ------------------------------------------------------------------------
\* reports.py: TaxReportService
\* ------------------------------------------------------------------------
\* variant: a refundable month reported as 0, as the balance sheet does
tax_calculate_month_floored(business_id, year, month) ==
    LET txns == {i \in TransactionsOfBusiness(business_id) :
                    InMonthWindow(transactions[i].date, year, month)}
        ins == {i \in txns : transactions[i].direction = "in"}
        outs == {i \in txns : /\ transactions[i].direction = "out"
                              /\ transactions[i].tax_amount > 0}
        tax_collected == SumOver([i \in ins |-> transactions[i].tax_amount], ins)
        tax_paid == SumOver([i \in outs |-> transactions[i].tax_amount], outs)
        tax_payments == SumAmounts({r \in MonthLines(business_id, year, month) :
                                       LineOf(r).special_type = "tax_payment"})
        net == tax_collected - tax_paid - tax_payments
    IN  [month |-> month,
         tax_collected |-> tax_collected,
         tax_paid |-> tax_paid,
         tax_payments |-> tax_payments,
         net_tax_payable |-> IF net < 0 THEN 0 ELSE net]
tax_calculate_month(business_id, year, month) ==
    LET txns == {i \in TransactionsOfBusiness(business_id) :
                    InMonthWindow(transactions[i].date, year, month)}
        ins == {i \in txns : transactions[i].direction = "in"}
        outs == {i \in txns : /\ transactions[i].direction = "out"
                              /\ transactions[i].tax_amount > 0}
        tax_collected == SumOver([i \in ins |-> transactions[i].tax_amount], ins)
        tax_paid == SumOver([i \in outs |-> transactions[i].tax_amount], outs)
        tax_payments == SumAmounts({r \in MonthLines(business_id, year, month) :
                                       LineOf(r).special_type = "tax_payment"})
    IN  [month |-> month,
         tax_collected |-> tax_collected,
         tax_paid |-> tax_paid,
         tax_payments |-> tax_payments,
         net_tax_payable |-> tax_collected - tax_paid - tax_payments]

TaxReport(business_id, year) ==
    LET months == [month \in 1..12 |-> tax_calculate_month(business_id, year, month)]
    IN  [business_id |-> business_id, year |-> year,
         currency |-> IF business_id \in DOMAIN businesses
                      THEN businesses[business_id].currency ELSE "CHF",
         months |-> months,
         summary |->
            [total_tax_collected |->
                 SumOver([m \in 1..12 |-> months[m].tax_collected], 1..12),
             total_tax_paid |-> SumOver([m \in 1..12 |-> months[m].tax_paid], 1..12),
             total_tax_payments |->
                 SumOver([m \in 1..12 |-> months[m].tax_payments], 1..12),
             net_tax_payable |->
                 SumOver([m \in 1..12 |-> months[m].net_tax_payable], 1..12)]]

generate_tax_report(business_id, year) ==
    /\ response' = IF business_id \notin DOMAIN businesses
                   THEN [op |-> "generate_tax_report", status |-> "not_found",
                         body |-> NotFound(business_id)]
                   ELSE [op |-> "generate_tax_report", status |-> "ok",
                         body |-> TaxReport(business_id, year)]
    /\ UNCHANGED <<tables, transactions, report_job>>

\* ------------------------------------------------------------------------
\* Specification of the P&L report: a ledger of category-allocated and
\* special-type transactions dated inside and outside the reported years,
\* and generate_pl for an existing and for a missing business
\* ------------------------------------------------------------------------
Years == {2024, 2025}

CategoryLine(category_id, amount) ==
    [category_id |-> category_id, special_type |-> "none", amount |-> amount]
SpecialLine(special_type, amount) ==
    [category_id |-> 0, special_type |-> special_type, amount |-> amount]

\* an untaxed payload whose gross is the sum of its allocations
PlainPayload(date, direction, allocations) ==
    [date |-> date, direction |-> direction,
     gross_amount |-> SumAllocations(allocations),
     tax_rate_id |-> 0, tax_amount |-> None, net_amount |-> None,
     allocations |-> allocations]

PLDates == {Date(2024, 1, 15), Date(2024, 2, 1), Date(2024, 12, 31), Date(2025, 1, 31)}

PLTemplates ==
    {[direction |-> "in", allocations |-> <<CategoryLine(1, 10000)>>],
     [direction |-> "in", allocations |-> <<CategoryLine(2, 2000), CategoryLine(1, 1000)>>],
     [direction |-> "out", allocations |-> <<CategoryLine(3, 3000)>>],
     [direction |-> "out", allocations |-> <<CategoryLine(4, 5000)>>],
     [direction |-> "in", allocations |-> <<SpecialLine("capital", 7000)>>]}

CreatePLTransaction ==
    /\ Len(transactions) < MaxPLTxns
    /\ \E date \in PLDates, t \in PLTemplates :
           create_transaction(1, PlainPayload(date, t.direction, t.allocations))

RequestPL == \E business_id \in BusinessIds, year \in Years : generate_pl(business_id, year)

NextPL == CreatePLTransaction \/ RequestPL

SpecPL == Init /\ [][NextPL]_vars

\* --- what the claims say a P&L holds, computed from the ledger by calendar
\* --- month and category type rather than by the report's queries
YearOf(d) == d \div 10000
MonthOf(d) == (d \div 100) % 100

\* the lines of the business's transactions dated in the calendar month
\* that are allocated to a category c of the business satisfying Want(c)
LedgerLines(business_id, year, month, Want(_)) ==
    {r \in LineRefs :
        /\ accounts[transactions[r[1]].account_id].business_id = business_id
        /\ YearOf(transactions[r[1]].date) = year
        /\ MonthOf(transactions[r[1]].date) = month
        /\ LineOf(r).category_id \in DOMAIN categories
        /\ categories[LineOf(r).category_id].business_id = business_id
        /\ Want(LineOf(r).category_id)}

LedgerTypeTotal(business_id, year, month, type) ==
    LET Want(c) == categories[c].type = type
    IN  SumAmounts(LedgerLines(business_id, year, month, Want))

LedgerCodeTotal(business_id, year, month, type, code) ==
    LET Want(c) == categories[c].type = type /\ categories[c].code = code
    IN  SumAmounts(LedgerLines(business_id, year, month, Want))

IsPL == response.op = "generate_pl" /\ response.status = "ok"

ProfitEquations(e) ==
    /\ e.gross_profit = e.income.total - e.cogs.total
    /\ e.net_profit = e.gross_profit - e.expenses.total

\* C6: in every month entry and in the YTD entry of generate_pl,
\* gross_profit = income.total - cogs.total and
\* net_profit = gross_profit - expenses.total, each monthly total being the
\* sum of the amounts of the month's lines whose category has that type.
C6_ProfitEquations ==
    IsPL =>
        LET b == response.body.business_id
            y == response.body.year
        IN  /\ \A m \in 1..12 :
                LET e == response.body.months[m]
                IN  /\ ProfitEquations(e)
                    /\ e.income.total = LedgerTypeTotal(b, y, m, "income")
                    /\ e.cogs.total = LedgerTypeTotal(b, y, m, "cogs")
                    /\ e.expenses.total = LedgerTypeTotal(b, y, m, "expense")
            /\ ProfitEquations(response.body.ytd)

\* scenario 3: income 100.00 and expense 50.00 in January, nothing else
C6_Witness ==
    /\ IsPL
    /\ response.body.business_id = 1 /\ response.body.year = 2024
    /\ Len(transactions) = 2
    /\ response.body.months[1].income.total = 10000
    /\ response.body.months[1].expenses.total = 5000
    /\ response.body.months[1].net_profit = 5000
    /\ \A m \in 2..12 : response.body.months[m].net_profit = 0
    /\ response.body.ytd.net_profit = 5000

\* the report's bucket names and the category type each one collects
BucketType == [income |-> "income", cogs |-> "cogs", expenses |-> "expense"]
CodesOf(business_id) ==
    {categories[c].code : c \in {k \in DOMAIN categories :
                                     categories[k].business_id = business_id}}

\* C7: the per-category maps are sparse and YTD is the element-wise sum of
\* the 12 months: a code is in a month's by_category iff a line of the month
\* is allocated to it, YTD by_category[c] is the sum of the months where c
\* appears (so c is in YTD iff it is in some month), and every YTD total and
\* profit is the sum of the 12 monthly values.
C7_SparseMapsAndYtdSum ==
    IsPL =>
        LET b == response.body.business_id
            y == response.body.year
            months == response.body.months
            ytd == response.body.ytd
        IN  /\ \A k \in DOMAIN BucketType :
                /\ \A m \in 1..12 :
                    /\ DOMAIN months[m][k].by_category \subseteq CodesOf(b)
                    /\ \A code \in CodesOf(b) :
                        LET Want(c) == /\ categories[c].type = BucketType[k]
                                       /\ categories[c].code = code
                        IN  /\ code \in DOMAIN months[m][k].by_category
                                <=> LedgerLines(b, y, m, Want) # {}
                            /\ code \in DOMAIN months[m][k].by_category
                                => months[m][k].by_category[code]
                                   = LedgerCodeTotal(b, y, m, BucketType[k], code)
                /\ DOMAIN ytd[k].by_category
                   = UNION {DOMAIN months[m][k].by_category : m \in 1..12}
                /\ \A code \in DOMAIN ytd[k].by_category :
                    LET present == {m \in 1..12 : code \in DOMAIN months[m][k].by_category}
                    IN  ytd[k].by_category[code]
                        = SumOver([m \in present |-> months[m][k].by_category[code]],
                                  present)
                /\ ytd[k].total = SumOver([m \in 1..12 |-> months[m][k].total], 1..12)
            /\ ytd.gross_profit = SumOver([m \in 1..12 |-> months[m].gross_profit], 1..12)
            /\ ytd.net_profit = SumOver([m \in 1..12 |-> months[m].net_profit], 1..12)

\* head_1 has lines in January and in December, head_2 in neither
C7_Witness ==
    /\ IsPL
    /\ "head_1" \in DOMAIN response.body.months[1].income.by_category
    /\ "head_1" \in DOMAIN response.body.months[12].income.by_category
    /\ "head_2" \notin DOMAIN response.body.ytd.income.by_category
    /\ response.body.ytd.income.by_category["head_1"] = 20000

\* C8: generate_pl for a business id that does not exist reports "not
\* found" and returns no report; any other call returns a normal report.
C8_MissingBusinessNotFound ==
    response.op = "generate_pl" =>
        IF response.body.business_id \in DOMAIN businesses
        THEN response.status = "ok"
        ELSE response.status = "not_found"

\* ------------------------------------------------------------------------
\* Specification of the balance sheet and the tax report: a ledger of taxed
\* income, expenses, credit-card purchases and special-type movements on
\* the bank and credit-card accounts, dated in the prior year, in January
\* and on a leap day, and both reports for an existing and for a missing
\* business
\* ------------------------------------------------------------------------
BSDates == {Date(2023, 12, 31), Date(2024, 1, 15), Date(2024, 2, 29)}

BSTemplates ==
    {[account_id |-> 1, direction |-> "in", tax_rate_id |-> 1,
      allocations |-> <<CategoryLine(1, 10810)>>],
     [account_id |-> 1, direction |-> "out", tax_rate_id |-> 0,
      allocations |-> <<CategoryLine(4, 5000)>>],
     [account_id |-> 3, direction |-> "out", tax_rate_id |-> 0,
      allocations |-> <<CategoryLine(3, 3000)>>],
     [account_id |-> 1, direction |-> "in", tax_rate_id |-> 0,
      allocations |-> <<SpecialLine("capital", 7000)>>],
     [account_id |-> 1, direction |-> "out", tax_rate_id |-> 0,
      allocations |-> <<SpecialLine("income_tax", 2000)>>],
     [account_id |-> 2, direction |-> "out", tax_rate_id |-> 0,
      allocations |-> <<SpecialLine("tax_payment", 1000)>>]}

BSPayload(date, t) ==
    [PlainPayload(date, t.direction, t.allocations) EXCEPT !.tax_rate_id = t.tax_rate_id]

CreateBSTransaction ==
    /\ Len(transactions) < MaxBSTxns
    /\ \E date \in BSDates, t \in BSTemplates :
           create_transaction(t.account_id, BSPayload(date, t))

RequestBalanceSheet ==
    \E business_id \in BusinessIds, year \in Years :
        generate_balance_sheet(business_id, year)

RequestTaxReport ==
    \E business_id \in BusinessIds, year \in Years :
        generate_tax_report(business_id, year)

NextBS == CreateBSTransaction \/ RequestBalanceSheet \/ RequestTaxReport

SpecBS == Init /\ [][NextBS]_vars

IsBS == response.op = "generate_balance_sheet" /\ response.status = "ok"

\* C1: every one of the 12 monthly snapshots of generate_balance_sheet
\* satisfies assets.total - liabilities.total = equity.total, i.e.
\* validation[month].balanced is true for all months.
C1_EveryMonthBalanced ==
    IsBS =>
        \A m \in 1..12 :
            /\ response.body.months[m].assets.total
               - response.body.months[m].liabilities.total
               = response.body.months[m].equity.total
            /\ response.body.validation[m].balanced

\* C9: generate_balance_sheet and generate_tax_report for a business id that
\* does not exist fail with not-found and return no month entry, validation
\* entry or summary; for an existing business they return the report.
C9_MissingBusinessFails ==
    response.op \in {"generate_balance_sheet", "generate_tax_report"} =>
        IF response.body.business_id \in DOMAIN businesses
        THEN response.status = "ok" /\ "months" \in DOMAIN response.body
        ELSE /\ response.status = "not_found"
             /\ DOMAIN response.body
                \cap {"months", "validation", "summary"} = {}

\* a report asked for the missing business 2 over a non-empty ledger
C9_Witness ==
    /\ response.op \in {"generate_balance_sheet", "generate_tax_report"}
    /\ response.status = "not_found"
    /\ response.body.business_id = 2
    /\ Len(transactions) > 0

\* C10: for an existing business generate_balance_sheet returns the full
\* report whatever the balance: validation[month] holds
\* net_assets = assets.total - liabilities.total, equity = equity.total and
\* balanced = (net_assets = equity) for each of the 12 months.
C10_ImbalanceIsReported ==
    (response.op = "generate_balance_sheet"
     /\ response.body.business_id \in DOMAIN businesses) =>
        /\ response.status = "ok"
        /\ DOMAIN response.body.months = 1..12
        /\ DOMAIN response.body.validation = 1..12
        /\ \A m \in 1..12 :
            LET v == response.body.validation[m]
                data == response.body.months[m]
            IN  /\ v.net_assets = data.assets.total - data.liabilities.total
                /\ v.equity = data.equity.total
                /\ v.balanced \in BOOLEAN
                /\ v.balanced <=> (v.net_assets = v.equity)

\* a returned report with a balanced January and an unbalanced February
C10_Witness ==
    /\ IsBS
    /\ response.body.validation[1].balanced
    /\ ~response.body.validation[2].balanced
    /\ response.body.validation[2].net_assets # response.body.validation[2].equity

\* ------------------------------------------------------------------------
\* Specification of the ledger reports: a second credit card opened with
\* create_account, taxed income and taxed expenses (one with a
\* caller-supplied negative tax_amount), asset purchases, tax payments and
\* purchases on either credit card, dated in January and on a leap day, and
\* the balance sheet and the tax report of the business
\* ------------------------------------------------------------------------
LedgerDates == {Date(2024, 1, 15), Date(2024, 2, 29)}

LedgerTemplates ==
    {[account_id |-> 1, direction |-> "in", tax_rate_id |-> 1, tax_amount |-> None,
      allocations |-> <<CategoryLine(1, 10810)>>],
     [account_id |-> 2, direction |-> "out", tax_rate_id |-> 1, tax_amount |-> None,
      allocations |-> <<CategoryLine(4, 5405)>>],
     [account_id |-> 2, direction |-> "out", tax_rate_id |-> 0, tax_amount |-> Some(-500),
      allocations |-> <<CategoryLine(4, 4000)>>],
     [account_id |-> 1, direction |-> "out", tax_rate_id |-> 0, tax_amount |-> None,
      allocations |-> <<SpecialLine("asset_purchase", 30000)>>],
     [account_id |-> 2, direction |-> "out", tax_rate_id |-> 0, tax_amount |-> None,
      allocations |-> <<SpecialLine("tax_payment", 1000)>>],
     [account_id |-> 3, direction |-> "out", tax_rate_id |-> 0, tax_amount |-> None,
      allocations |-> <<CategoryLine(3, 3000)>>],
     [account_id |-> 4, direction |-> "out", tax_rate_id |-> 0, tax_amount |-> None,
      allocations |-> <<CategoryLine(4, 2000)>>]}

LedgerPayload(date, t) ==
    [PlainPayload(date, t.direction, t.allocations) EXCEPT
        !.tax_rate_id = t.tax_rate_id, !.tax_amount = t.tax_amount]

OpenCreditCard ==
    /\ Len(accounts) < MaxAccounts
    /\ create_account(1, [type |-> "credit_card", opening_balance |-> 0])

CreateLedgerTransaction ==
    /\ Len(transactions) < MaxLedgerTxns
    /\ \E date \in LedgerDates, t \in LedgerTemplates :
           create_transaction(t.account_id, LedgerPayload(date, t))

RequestLedgerBalanceSheet == \E year \in Years : generate_balance_sheet(1, year)

RequestLedgerTaxReport == generate_tax_report(1, 2024)

NextLedger ==
    \/ OpenCreditCard
    \/ CreateLedgerTransaction
    \/ RequestLedgerBalanceSheet
    \/ RequestLedgerTaxReport

SpecLedger == Init /\ [][NextLedger]_vars

\* --- what the claims say the reports hold, computed from the ledger by
\* --- calendar month rather than by the report's queries
CalendarTxns(business_id, year, month) ==
    {i \in DOMAIN transactions :
        /\ accounts[transactions[i].account_id].business_id = business_id
        /\ YearOf(transactions[i].date) = year
        /\ MonthOf(transactions[i].date) = month}

SumTax(ids) == SumOver([i \in ids |-> transactions[i].tax_amount], ids)

CalendarSpecialTotal(business_id, year, month, special_type) ==
    SumAmounts({r \in LineRefs : /\ r[1] \in CalendarTxns(business_id, year, month)
                                 /\ LineOf(r).special_type = special_type})

IsTaxReport == response.op = "generate_tax_report" /\ response.status = "ok"

\* C11: in generate_tax_report, for every month, tax_collected is the sum
\* of tax_amount over the IN transactions dated in the month, tax_paid the
\* sum of tax_amount over the OUT transactions with tax_amount > 0,
\* tax_payments the sum of the TAX_PAYMENT line amounts, and
\* net_tax_payable = tax_collected - tax_paid - tax_payments, never floored;
\* each summary total is the sum of the 12 monthly values, hence
\* summary.net_tax_payable = total_tax_collected - total_tax_paid
\* - total_tax_payments.
C11_TaxReportTotals ==
    IsTaxReport =>
        LET b == response.body.business_id
            y == response.body.year
            months == response.body.months
            summary == response.body.summary
            Total(field) == SumOver([m \in 1..12 |-> months[m][field]], 1..12)
        IN  /\ DOMAIN months = 1..12
            /\ \A m \in 1..12 :
                LET txns == CalendarTxns(b, y, m)
                IN  /\ months[m].tax_collected
                       = SumTax({i \in txns : transactions[i].direction = "in"})
                    /\ months[m].tax_paid
                       = SumTax({i \in txns : /\ transactions[i].direction = "out"
                                              /\ transactions[i].tax_amount > 0})
                    /\ months[m].tax_payments
                       = CalendarSpecialTotal(b, y, m, "tax_payment")
                    /\ months[m].net_tax_payable
                       = months[m].tax_collected - months[m].tax_paid
                         - months[m].tax_payments
            /\ summary.total_tax_collected = Total("tax_collected")
            /\ summary.total_tax_paid = Total("tax_paid")
            /\ summary.total_tax_payments = Total("tax_payments")
            /\ summary.net_tax_payable = Total("net_tax_payable")
            /\ summary.net_tax_payable
               = summary.total_tax_collected - summary.total_tax_paid
                 - summary.total_tax_payments

\* tax paid on a January expense and a tax payment in February with nothing
\* collected: both months and the year are refundable
C11_Witness ==
    /\ IsTaxReport
    /\ response.body.months[1].tax_paid > 0
    /\ response.body.months[1].net_tax_payable < 0
    /\ response.body.months[2].tax_payments = 1000
    /\ response.body.months[2].net_tax_payable = -1000
    /\ response.body.summary.net_tax_payable
       = response.body.months[1].net_tax_payable - 1000

\* the transactions of the business dated in or before the calendar month
TxnsThrough(business_id, year, month) ==
    {i \in DOMAIN transactions :
        /\ accounts[transactions[i].account_id].business_id = business_id
        /\ transactions[i].date \div 100 <= year * 100 + month}

SumGross(ids) == SumOver([i \in ids |-> transactions[i].gross_amount], ids)

\* opening balance plus IN gross minus OUT gross of the account's
\* transactions dated in or before the calendar month
LedgerBalance(account_id, year, month) ==
    LET own == {i \in TxnsThrough(accounts[account_id].business_id, year, month) :
                   transactions[i].account_id = account_id}
    IN  accounts[account_id].opening_balance
        + SumGross({i \in own : transactions[i].direction = "in"})
        - SumGross({i \in own : transactions[i].direction = "out"})

SpecialThrough(business_id, year, month, special_type) ==
    SumAmounts({r \in LineRefs : /\ r[1] \in TxnsThrough(business_id, year, month)
                                 /\ LineOf(r).special_type = special_type})

AccountsOfType(business_id, type) ==
    {a \in DOMAIN accounts : accounts[a].business_id = business_id /\ accounts[a].type = type}

\* C17: in every balance-sheet snapshot, each BANK account's balance is its
\* opening_balance plus the gross of its IN transactions minus the gross of
\* its OUT transactions dated on or before the as-of date, and assets.total
\* is the sum of those bank balances + 0 (inventory) + the sum of the
\* ASSET_PURCHASE line amounts dated on or before the as-of date;
\* transactions after the as-of date contribute nothing.
C17_AssetsAsOfDate ==
    IsBS =>
        LET b == response.body.business_id
            y == response.body.year
            banks == AccountsOfType(b, "bank")
        IN  \A m \in 1..12 :
                LET assets == response.body.months[m].assets
                IN  /\ DOMAIN assets.bank_accounts.accounts = banks
                    /\ \A a \in banks :
                           assets.bank_accounts.accounts[a] = LedgerBalance(a, y, m)
                    /\ assets.inventory = 0
                    /\ assets.total
                       = SumOver([a \in banks |-> LedgerBalance(a, y, m)], banks)
                         + 0 + SpecialThrough(b, y, m, "asset_purchase")

\* an asset purchase in January and taxed income on the leap day, both on
\* Bank Account #1: January shows only the purchase, February both
C17_Witness ==
    /\ IsBS
    /\ response.body.year = 2024
    /\ response.body.months[1].assets.asset_purchases = 30000
    /\ response.body.months[1].assets.bank_accounts.accounts[1] = 70000
    /\ response.body.months[1].assets.total = 100000
    /\ response.body.months[2].assets.bank_accounts.accounts[1] = 80810
    /\ response.body.months[2].assets.total = 110810

\* C18: in every balance-sheet snapshot, liabilities.credit_cards.total is
\* the sum over all CREDIT_CARD accounts of max(0, -balance as of the date):
\* each card is evaluated on its own, a card with a non-negative balance
\* contributes 0, and no card's contribution depends on the other cards or
\* on the order in which the accounts are processed; that total is the
\* credit-card term of liabilities.total.
C18_CardLiabilityIsSum ==
    IsBS =>
        LET b == response.body.business_id
            y == response.body.year
            cards == AccountsOfType(b, "credit_card")
            Owed(a, m) == IF LedgerBalance(a, y, m) < 0 THEN -LedgerBalance(a, y, m) ELSE 0
        IN  \A m \in 1..12 :
                LET liabilities == response.body.months[m].liabilities
                IN  /\ liabilities.credit_cards.total
                       = SumOver([a \in cards |-> Owed(a, m)], cards)
                    /\ liabilities.total
                       = liabilities.credit_cards.total + liabilities.loans.net
                         + liabilities.tax_payable.total

\* C19: in every balance-sheet snapshot, liabilities.tax_payable.vat is
\* max(0, C - P - T) where, over everything dated on or before the as-of
\* date, C is the sum of tax_amount of IN transactions, P the sum of
\* tax_amount of OUT transactions and T the sum of TAX_PAYMENT line amounts;
\* the VAT liability is never negative.
C19_VatIsFlooredDifference ==
    IsBS =>
        LET b == response.body.business_id
            y == response.body.year
        IN  \A m \in 1..12 :
                LET txns == TxnsThrough(b, y, m)
                    C == SumTax({i \in txns : transactions[i].direction = "in"})
                    P == SumTax({i \in txns : transactions[i].direction = "out"})
                    T == SpecialThrough(b, y, m, "tax_payment")
                    vat == response.body.months[m].liabilities.tax_payable.vat
                IN  /\ vat = (IF C - P - T > 0 THEN C - P - T ELSE 0)
                    /\ vat >= 0

\* a tax payment in January with nothing collected (floored at 0), then
\* taxed income on the leap day
C19_Witness ==
    /\ IsBS
    /\ response.body.year = 2024
    /\ SpecialThrough(1, 2024, 1, "tax_payment") = 1000
    /\ SumTax(TxnsThrough(1, 2024, 1)) = 0
    /\ response.body.months[1].liabilities.tax_payable.vat = 0
    /\ response.body.months[2].liabilities.tax_payable.vat = 9000

\* ------------------------------------------------------------------------
\* tests/conftest.py: rows stored through the ORM, without the request
\* schemas
\* ------------------------------------------------------------------------
\* transaction_factory: the row has no lines; tax_rate is a TaxRate row
\* [id |-> .., rate |-> ..] or None
transaction_factory(account_id, date, direction, gross_amount, tax_rate, is_reconciled) ==
    LET taxed == ~IsNone(tax_rate) /\ Value(tax_rate).rate > 0
        net_amount == IF taxed
                      THEN Quantize(gross_amount * RateScale,
                                    RateScale + Value(tax_rate).rate)
                      ELSE gross_amount
        tax_amount == IF taxed THEN gross_amount - net_amount ELSE 0
    IN  /\ account_id \in DOMAIN accounts
        /\ gross_amount >= 0
        /\ transactions' = Append(transactions,
               [id |-> NextId(transactions),
                account_id |-> account_id,
                date |-> date,
                direction |-> direction,
                gross_amount |-> gross_amount,
                tax_rate_id |-> IF IsNone(tax_rate) THEN 0 ELSE Value(tax_rate).id,
                tax_amount |-> tax_amount,
                net_amount |-> net_amount,
                is_reconciled |-> is_reconciled,
                lines |-> <<>>])
        /\ response' = [op |-> "transaction_factory", status |-> "ok",
                        body |-> NextId(transactions)]
        /\ UNCHANGED <<tables, report_job>>

\* transaction_line_factory: one more line on a stored transaction; the
\* table's CHECK constraint wants amount > 0
transaction_line_factory(transaction_id, amount, category_id, special_type) ==
    /\ transaction_id \in DOMAIN transactions
    /\ amount > 0
    /\ transactions' = [transactions EXCEPT
           ![transaction_id].lines =
               Append(@, [category_id |-> category_id,
                          special_type |-> special_type,
                          amount |-> amount])]
    /\ response' = [op |-> "transaction_line_factory", status |-> "ok",
                    body |-> transaction_id]
    /\ UNCHANGED <<tables, report_job>>

\* ------------------------------------------------------------------------
\* validation.py: TransferValidationService
\* ------------------------------------------------------------------------
TransferEntry(r) ==
    [transaction_id |-> r[1], line_id |-> r, amount |-> LineOf(r).amount]

\* variant: the difference taken as in minus out
validate_month_swapped(business_id, year, month) ==
    LET transfer_lines == {r \in MonthLines(business_id, year, month) :
                              LineOf(r).special_type \in {"transfer_in", "transfer_out"}}
        outs == {r \in transfer_lines : LineOf(r).special_type = "transfer_out"}
        ins == {r \in transfer_lines : LineOf(r).special_type = "transfer_in"}
        total_out == SumAmounts(outs)
        total_in == SumAmounts(ins)
        difference == total_in - total_out
    IN  [month |-> month,
         is_balanced |-> difference = 0,
         total_transfers_out |-> total_out,
         total_transfers_in |-> total_in,
         difference |-> difference,
         transfers_out_count |-> Cardinality(outs),
         transfers_in_count |-> Cardinality(ins),
         transfers_out |-> {TransferEntry(r) : r \in outs},
         transfers_in |-> {TransferEntry(r) : r \in ins}]
validate_month(business_id, year, month) ==
    LET transfer_lines == {r \in MonthLines(business_id, year, month) :
                              LineOf(r).special_type \in {"transfer_in", "transfer_out"}}
        outs == {r \in transfer_lines : LineOf(r).special_type = "transfer_out"}
        ins == {r \in transfer_lines : LineOf(r).special_type = "transfer_in"}
        total_out == SumAmounts(outs)
        total_in == SumAmounts(ins)
        difference == total_out - total_in
    IN  [month |-> month,
         is_balanced |-> difference = 0,
         total_transfers_out |-> total_out,
         total_transfers_in |-> total_in,
         difference |-> difference,
         transfers_out_count |-> Cardinality(outs),
         transfers_in_count |-> Cardinality(ins),
         transfers_out |-> {TransferEntry(r) : r \in outs},
         transfers_in |-> {TransferEntry(r) : r \in ins}]

\* TransferValidationService.validate_transfers; month 0 is month = None
TransferValidation(business_id, year, month) ==
    LET months_to_check == IF month # 0 THEN <<month>> ELSE [m \in 1..12 |-> m]
        checked == {months_to_check[k] : k \in DOMAIN months_to_check}
        months == [m \in checked |-> validate_month(business_id, year, m)]
        Unbalanced(m) == ~months[m].is_balanced
    IN  [business_id |-> business_id,
         year |-> year,
         months |-> months,
         all_balanced |-> \A m \in checked : months[m].is_balanced,
         unbalanced_months |-> SelectSeq(months_to_check, Unbalanced)]

\* routers/validation.py validate_transfers
validate_transfers(business_id, year, month) ==
    /\ response' = [op |-> "validate_transfers", status |-> "ok",
                    body |-> TransferValidation(business_id, year, month)]
    /\ UNCHANGED <<tables, transactions, report_job>>

\* ------------------------------------------------------------------------
\* validation.py: ErrorHighlightingService.  A check's Optional[Dict] is
\* None or Some(finding).
\* ------------------------------------------------------------------------
\* variant: the check never fires
check_missing_allocation_never(txn) == None
check_missing_allocation(txn) ==
    IF txn.lines = <<>>
    THEN Some([transaction_id |-> txn.id,
               error_type |-> "missing_allocation",
               severity |-> "error"])
    ELSE None

check_allocation_mismatch(txn) ==
    IF txn.lines = <<>> THEN None
    ELSE LET total_allocated == SumAllocations(txn.lines)
             expected_amount == IF txn.net_amount # 0 THEN txn.net_amount
                                ELSE txn.gross_amount - txn.tax_amount
         IN  IF Abs(total_allocated - expected_amount) > 1
             THEN Some([transaction_id |-> txn.id,
                        expected_net |-> expected_amount,
                        allocated_total |-> total_allocated,
                        error_type |-> "allocation_mismatch",
                        severity |-> "error"])
             ELSE None

IsTransferLine(line) == line.special_type \in {"transfer_in", "transfer_out"}

\* variant: one transfer line is enough, whatever the other lines are
check_transfer_balance_any(txn) ==
    LET transfer_lines == SelectSeq(txn.lines, IsTransferLine)
    IN  IF transfer_lines # <<>>
        THEN Some([transaction_id |-> txn.id,
                   transfer_type |-> transfer_lines[1].special_type,
                   error_type |-> "unbalanced_transfer",
                   severity |-> "warning"])
        ELSE None
check_transfer_balance(txn) ==
    LET transfer_lines == SelectSeq(txn.lines, IsTransferLine)
    IN  IF transfer_lines # <<>> /\ Len(transfer_lines) = Len(txn.lines)
        THEN Some([transaction_id |-> txn.id,
                   transfer_type |-> transfer_lines[1].special_type,
                   error_type |-> "unbalanced_transfer",
                   severity |-> "warning"])
        ELSE None

\* date.toordinal(): the day number in the proleptic Gregorian calendar
DaysInMonth(year, month) ==
    IF month = 2 THEN (IF IsLeapYear(year) THEN 29 ELSE 28)
    ELSE IF month \in {4, 6, 9, 11} THEN 30 ELSE 31
ToOrdinal(d) ==
    LET y == YearOf(d)
        before == 1..(MonthOf(d) - 1)
    IN  (y - 1) * 365 + ((y - 1) \div 4) - ((y - 1) \div 100) + ((y - 1) \div 400)
        + SumOver([k \in before |-> DaysInMonth(y, k)], before)
        + (d % 100)

\* today is the value datetime.date.today() returns when the check runs
check_unreconciled_transaction(txn, today) ==
    LET days_old == ToOrdinal(today) - ToOrdinal(txn.date)
    IN  IF ~txn.is_reconciled /\ days_old > 30
        THEN Some([transaction_id |-> txn.id,
                   days_unreconciled |-> days_old,
                   error_type |-> "unreconciled_transaction",
                   severity |-> "warning"])
        ELSE None

RECURSIVE ErrorsOf(_)
\* the list errors after the loop has visited the transactions ids, in order
ErrorsOf(ids) ==
    IF ids = <<>> THEN <<>>
    ELSE check_missing_allocation(transactions[Head(ids)])
         \o check_allocation_mismatch(transactions[Head(ids)])
         \o ErrorsOf(Tail(ids))

RECURSIVE WarningsOf(_, _)
\* the list warnings after the loop has visited the transactions ids, in order
WarningsOf(ids, today) ==
    IF ids = <<>> THEN <<>>
    ELSE check_transfer_balance(transactions[Head(ids)])
         \o check_unreconciled_transaction(transactions[Head(ids)], today)
         \o WarningsOf(Tail(ids), today)

\* ErrorHighlightingService.validate_transactions run on the day today;
\* year 0 is year = None and month 0 is month = None
ValidateTransactions(business_id, year, month, today) ==
    LET InQuery(i) ==
            /\ accounts[transactions[i].account_id].business_id = business_id
            /\ (IF year # 0 THEN YearOf(transactions[i].date) = year ELSE TRUE)
            /\ (IF month # 0 /\ year # 0 THEN MonthOf(transactions[i].date) = month
                ELSE TRUE)
        ids == SelectSeq([i \in 1..Len(transactions) |-> i], InQuery)
        errors == ErrorsOf(ids)
        warnings == WarningsOf(ids, today)
    IN  [business_id |-> business_id,
         year |-> year,
         month |-> month,
         total_transactions_checked |-> Len(ids),
         error_count |-> Len(errors),
         warning_count |-> Len(warnings),
         errors |-> errors,
         warnings |-> warnings]

\* routers/validation.py validate_transactions
validate_transactions(business_id, year, month, today) ==
    /\ response' = [op |-> "validate_transactions", status |-> "ok",
                    body |-> ValidateTransactions(business_id, year, month, today)]
    /\ UNCHANGED <<tables, transactions, report_job>>

\* ------------------------------------------------------------------------
\* validation.py: ValidationSummaryService
\* ------------------------------------------------------------------------
\* variant: unbalanced transfers left out of has_errors
FullValidationReport_errors_only(business_id, year, today) ==
    LET transfer_validation == TransferValidation(business_id, year, 0)
        transaction_errors == ValidateTransactions(business_id, year, 0, today)
        has_errors == transaction_errors.error_count > 0
        has_warnings == transaction_errors.warning_count > 0
    IN  [business_id |-> business_id,
         year |-> year,
         status |-> IF has_errors THEN "invalid"
                    ELSE IF has_warnings THEN "warnings" ELSE "valid",
         has_errors |-> has_errors,
         has_warnings |-> has_warnings,
         summary |->
            [total_transactions_checked |-> transaction_errors.total_transactions_checked,
             total_errors |-> transaction_errors.error_count,
             total_warnings |-> transaction_errors.warning_count,
             unbalanced_transfer_months |-> transfer_validation.unbalanced_months],
         transfer_validation |-> transfer_validation,
         transaction_validation |-> transaction_errors]
FullValidationReport(business_id, year, today) ==
    LET transfer_validation == TransferValidation(business_id, year, 0)
        transaction_errors == ValidateTransactions(business_id, year, 0, today)
        has_errors == \/ transaction_errors.error_count > 0
                      \/ ~transfer_validation.all_balanced
        has_warnings == transaction_errors.warning_count > 0
    IN  [business_id |-> business_id,
         year |-> year,
         status |-> IF has_errors THEN "invalid"
                    ELSE IF has_warnings THEN "warnings" ELSE "valid",
         has_errors |-> has_errors,
         has_warnings |-> has_warnings,
         summary |->
            [total_transactions_checked |-> transaction_errors.total_transactions_checked,
             total_errors |-> transaction_errors.error_count,
             total_warnings |-> transaction_errors.warning_count,
             unbalanced_transfer_months |-> transfer_validation.unbalanced_months],
         transfer_validation |-> transfer_validation,
         transaction_validation |-> transaction_errors]

\* routers/validation.py get_full_validation_report
get_full_validation_report(business_id, year, today) ==
    /\ response' = [op |-> "get_full_validation_report", status |-> "ok",
                    body |-> FullValidationReport(business_id, year, today)]
    /\ UNCHANGED <<tables, transactions, report_job>>

\* ------------------------------------------------------------------------
\* Specification of the validation engine: transfers out of and into Bank
\* Account #1 in January and February, income created through the API
\* (one with a caller-supplied net_amount of 0), payments made of two
\* transfer lines or of a transfer line next to a category or an
\* asset-purchase line, rows stored through the
\* ORM with no line or with one line that may not match, and the three
\* validation endpoints run on either side of the 30-day limit of the
\* January transactions
\* ------------------------------------------------------------------------
ValTemplates ==
    {[date |-> Date(2024, 2, 10), direction |-> "out", net_amount |-> None,
      allocations |-> <<SpecialLine("transfer_out", 200000)>>],
     [date |-> Date(2024, 2, 10), direction |-> "in", net_amount |-> None,
      allocations |-> <<SpecialLine("transfer_in", 150000)>>],
     [date |-> Date(2024, 1, 15), direction |-> "in", net_amount |-> None,
      allocations |-> <<SpecialLine("transfer_in", 200000)>>],
     [date |-> Date(2024, 1, 15), direction |-> "in", net_amount |-> Some(0),
      allocations |-> <<CategoryLine(1, 10000)>>],
     [date |-> Date(2024, 1, 15), direction |-> "in", net_amount |-> None,
      allocations |-> <<CategoryLine(1, 6000), CategoryLine(2, 4000)>>],
     [date |-> Date(2024, 2, 10), direction |-> "out", net_amount |-> None,
      allocations |-> <<SpecialLine("transfer_out", 3000), SpecialLine("transfer_out", 2000)>>],
     [date |-> Date(2024, 2, 10), direction |-> "out", net_amount |-> None,
      allocations |-> <<SpecialLine("transfer_out", 5000), CategoryLine(4, 5000)>>],
     [date |-> Date(2024, 2, 10), direction |-> "out", net_amount |-> None,
      allocations |-> <<SpecialLine("asset_purchase", 5000), SpecialLine("transfer_out", 5000)>>]}

ValPayload(t) ==
    [PlainPayload(t.date, t.direction, t.allocations) EXCEPT !.net_amount = t.net_amount]

\* the days on which the validation endpoints are called: 30 and 31 days
\* after 2024-01-15
WallClock == {Date(2024, 2, 14), Date(2024, 2, 15)}

CreateValTransaction ==
    /\ Len(transactions) < MaxValTxns
    /\ \E t \in ValTemplates : create_transaction(1, ValPayload(t))

StoreTransaction ==
    /\ Len(transactions) < MaxValTxns
    /\ \E is_reconciled \in BOOLEAN :
           transaction_factory(1, Date(2024, 1, 15), "in", 10000, None, is_reconciled)

\* a first line on a transaction stored without lines
StoreLine ==
    \E id \in DOMAIN transactions, amount \in {9000, 10000} :
        /\ transactions[id].lines = <<>>
        /\ transaction_line_factory(id, amount, 1, "none")

RequestTransferValidation ==
    \E month \in {0, 2} : validate_transfers(1, 2024, month)

RequestTransactionValidation ==
    \E scope \in {<<0, 0>>, <<2024, 1>>}, today \in WallClock :
        validate_transactions(1, scope[1], scope[2], today)

RequestFullValidation ==
    \E today \in WallClock : get_full_validation_report(1, 2024, today)

NextVal ==
    \/ CreateValTransaction
    \/ StoreTransaction
    \/ StoreLine
    \/ RequestTransferValidation
    \/ RequestTransactionValidation
    \/ RequestFullValidation

SpecVal == Init /\ [][NextVal]_vars

\* --- what the claims say the validators hold, computed from the ledger
IsTransferValidation == response.op = "validate_transfers"
IsTransactionValidation == response.op = "validate_transactions"
IsFullValidation == response.op = "get_full_validation_report"

\* <<transaction id, line>> of the transfer lines of one type dated in the
\* calendar month
CalendarTransfers(business_id, year, month, special_type) ==
    {r \in LineRefs : /\ r[1] \in CalendarTxns(business_id, year, month)
                      /\ LineOf(r).special_type = special_type}

\* C12: for each month checked by validate_transfers (all 12 when month is
\* absent, otherwise only the given one), difference is the sum of the
\* TRANSFER_OUT line amounts minus the sum of the TRANSFER_IN line amounts
\* over the lines dated in that month, is_balanced = (difference = 0) with
\* no tolerance, and the contributing transaction and line ids are listed;
\* all_balanced holds iff every checked month is balanced and
\* unbalanced_months lists exactly the unbalanced ones.
C12_TransferBalancePerMonth ==
    IsTransferValidation =>
        LET b == response.body.business_id
            y == response.body.year
            months == response.body.months
            unbalanced == response.body.unbalanced_months
        IN  /\ DOMAIN months \in {{m} : m \in 1..12} \cup {1..12}
            /\ \A m \in DOMAIN months :
                LET outs == CalendarTransfers(b, y, m, "transfer_out")
                    ins == CalendarTransfers(b, y, m, "transfer_in")
                IN  /\ months[m].difference = SumAmounts(outs) - SumAmounts(ins)
                    /\ months[m].is_balanced <=> (months[m].difference = 0)
                    /\ {<<e.transaction_id, e.line_id>> : e \in months[m].transfers_out}
                       = {<<r[1], r>> : r \in outs}
                    /\ {<<e.transaction_id, e.line_id>> : e \in months[m].transfers_in}
                       = {<<r[1], r>> : r \in ins}
            /\ response.body.all_balanced <=> \A m \in DOMAIN months : months[m].is_balanced
            /\ {unbalanced[k] : k \in DOMAIN unbalanced}
               = {m \in DOMAIN months : ~months[m].is_balanced}
            /\ Len(unbalanced) = Cardinality({m \in DOMAIN months : ~months[m].is_balanced})

\* 2000.00 out and 1500.00 in within February, all 12 months checked
C12_Witness ==
    /\ IsTransferValidation
    /\ DOMAIN response.body.months = 1..12
    /\ response.body.months[2].total_transfers_out = 200000
    /\ response.body.months[2].total_transfers_in = 150000
    /\ response.body.months[2].difference = 50000
    /\ ~response.body.months[2].is_balanced
    /\ response.body.months[1].is_balanced
    /\ ~response.body.all_balanced
    /\ response.body.unbalanced_months = <<2>>

\* the transactions validate_transactions has in scope
InScope(body) ==
    {i \in DOMAIN transactions :
        /\ accounts[transactions[i].account_id].business_id = body.business_id
        /\ body.year # 0 => YearOf(transactions[i].date) = body.year
        /\ (body.year # 0 /\ body.month # 0) => MonthOf(transactions[i].date) = body.month}

\* the positions of findings that report error_type for transaction id
FindingsFor(findings, id, error_type) ==
    {k \in DOMAIN findings : /\ findings[k].transaction_id = id
                             /\ findings[k].error_type = error_type}

\* C13: validate_transactions reports, for every transaction in scope,
\* exactly one finding of type missing_allocation with severity error if
\* the transaction has zero allocation lines, and no missing_allocation
\* finding otherwise; error_count is the number of error findings returned.
C13_MissingAllocationOnce ==
    IsTransactionValidation =>
        LET body == response.body
        IN  /\ \A i \in InScope(body) :
                Cardinality(FindingsFor(body.errors, i, "missing_allocation"))
                = (IF transactions[i].lines = <<>> THEN 1 ELSE 0)
            /\ \A k \in DOMAIN body.warnings :
                body.warnings[k].error_type # "missing_allocation"
            /\ \A k \in DOMAIN body.errors :
                /\ body.errors[k].severity = "error"
                /\ body.errors[k].transaction_id \in InScope(body)
            /\ \A k \in DOMAIN body.warnings : body.warnings[k].severity = "warning"
            /\ body.error_count = Len(body.errors)

\* a stored transaction without lines next to one with two lines: one
\* missing_allocation error, for the first
C13_Witness ==
    /\ IsTransactionValidation
    /\ Len(transactions) = 2
    /\ transactions[1].lines = <<>>
    /\ Len(transactions[2].lines) = 2
    /\ InScope(response.body) = {1, 2}
    /\ response.body.error_count = 1
    /\ response.body.errors[1].transaction_id = 1
    /\ response.body.errors[1].error_type = "missing_allocation"

\* C14: validate_transactions reports an allocation_mismatch error for a
\* transaction in scope exactly when |sum of its line amounts - net_amount|
\* exceeds 0.01, independently of the other checks and for every stored
\* value of net_amount (net_amount = 0 and a transaction with no lines
\* included), and at most once per transaction.
C14_MismatchIffOffNet ==
    IsTransactionValidation =>
        \A i \in InScope(response.body) :
            Cardinality(FindingsFor(response.body.errors, i, "allocation_mismatch"))
            = (IF Abs(SumAllocations(transactions[i].lines) - transactions[i].net_amount) > 1
               THEN 1 ELSE 0)

\* C15: the findings of validate_transactions are a function of the ledger
\* and of the caller's arguments, whatever the real time of the run: the
\* report returned is the one a run on any other day returns, its stale
\* warnings included.
C15_FindingsIndependentOfClock ==
    IsTransactionValidation =>
        \A now \in WallClock :
            ValidateTransactions(response.body.business_id, response.body.year,
                                 response.body.month, now).warnings
            = response.body.warnings

\* the months of the year whose transfer lines do not cancel
UnbalancedCalendarMonths(business_id, year) ==
    {m \in 1..12 :
        SumAmounts(CalendarTransfers(business_id, year, m, "transfer_out"))
        # SumAmounts(CalendarTransfers(business_id, year, m, "transfer_in"))}

\* C16: the full validation report's status is 'invalid' iff the
\* transaction validation has at least one error or at least one month of
\* the year has unbalanced transfers; otherwise 'warnings' iff there is at
\* least one warning; otherwise 'valid'.  has_errors and has_warnings agree
\* with that classification.
C16_StatusClassification ==
    IsFullValidation =>
        LET body == response.body
            errors == body.transaction_validation.errors # <<>>
            warnings == body.transaction_validation.warnings # <<>>
            unbalanced == UnbalancedCalendarMonths(body.business_id, body.year) # {}
        IN  /\ body.status = (IF errors \/ unbalanced THEN "invalid"
                              ELSE IF warnings THEN "warnings" ELSE "valid")
            /\ body.has_errors <=> (errors \/ unbalanced)
            /\ body.has_warnings <=> warnings

\* no error finding, but 2000.00 out against 1500.00 in within February
C16_Witness ==
    /\ IsFullValidation
    /\ response.body.transfer_validation.months[2].difference = 50000
    /\ response.body.transaction_validation.error_count = 0
    /\ response.body.transaction_validation.warning_count = 2
    /\ response.body.summary.unbalanced_transfer_months = <<2>>
    /\ response.body.status = "invalid"
    /\ response.body.has_errors
    /\ response.body.has_warnings

\* ------------------------------------------------------------------------
\* Specification of the allocation lines: transactions created and updated
\* through the transaction endpoints with allocations that name a category,
\* a special type, both or neither
\* ------------------------------------------------------------------------
\* every combination of the two discriminators of a TransactionAllocation
Discriminators == {<<1, "none">>, <<0, "capital">>, <<1, "capital">>, <<0, "none">>}

Allocation(d, amount) == [category_id |-> d[1], special_type |-> d[2], amount |-> amount]

\* one allocation of the whole amount, or the amount split in two
LineAllocations(amount) ==
    {<<Allocation(d, amount)>> : d \in Discriminators}
    \cup {<<Allocation(d, amount - 4000), Allocation(e, 4000)>> :
              d \in {<<1, "none">>}, e \in Discriminators}

LineGross == {10000, 5000}

LineUpdate(gross, allocations) ==
    [date |-> None, direction |-> None, gross_amount |-> gross,
     tax_rate_id |-> None, is_reconciled |-> None, allocations |-> Some(allocations)]

CreateLineTransaction ==
    /\ Len(transactions) < MaxLineTxns
    /\ \E amount \in LineGross :
           \E allocations \in LineAllocations(amount) :
               router_create_transaction(
                   1, PlainPayload(Date(2024, 1, 15), "in", allocations))

UpdateLineTransaction ==
    \E id \in DOMAIN transactions, gross \in {None, Some(10000)}, amount \in LineGross :
        \E allocations \in LineAllocations(amount) :
            router_update_transaction(id, LineUpdate(gross, allocations))

NextLine == CreateLineTransaction \/ UpdateLineTransaction

SpecLine == Init /\ [][NextLine]_vars

\* C20: after any sequence of transaction create and update operations,
\* every stored transaction line has exactly one discriminator set: a
\* category reference or a special type, never both and never neither.
C20_ExactlyOneDiscriminator ==
    \A r \in LineRefs :
        (LineOf(r).category_id # 0) <=> (LineOf(r).special_type = "none")

\* ------------------------------------------------------------------------
\* models.py: Transaction.calculate_tax and Transaction.calculate_net, on a
\* stored row
\* ------------------------------------------------------------------------
calculate_tax(txn) ==
    LET tax_rate == IF txn.tax_rate_id # 0 THEN get_tax_rate(txn.tax_rate_id) ELSE None
    IN  IF IsNone(tax_rate) \/ Value(tax_rate).rate = 0 THEN 0
        ELSE Quantize(txn.gross_amount * RateScale, RateScale + Value(tax_rate).rate)

calculate_net(txn) == txn.gross_amount - txn.tax_amount

\* ------------------------------------------------------------------------
\* Specification of the three tax splits: the same gross amounts and rates
\* stored through create_transaction and through the fixture
\* transaction_factory, with the ORM methods read off the stored row
\* ------------------------------------------------------------------------
\* the TaxRate row handed to the fixture
TaxRateRow(rate_id) ==
    IF rate_id = 0 THEN None
    ELSE Some([id |-> rate_id, rate |-> tax_rates[rate_id].rate])

CreateSplitTransaction ==
    /\ Len(transactions) < MaxSplitTxns
    /\ \E gross \in TaxGrossAmounts, rate_id \in DOMAIN tax_rates \cup {0} :
           create_transaction(1, TaxPayload(gross, rate_id))

StoreSplitTransaction ==
    /\ Len(transactions) < MaxSplitTxns
    /\ \E gross \in TaxGrossAmounts, rate_id \in DOMAIN tax_rates \cup {0} :
           transaction_factory(1, Date(2024, 1, 15), "in", gross, TaxRateRow(rate_id), FALSE)

NextSplit ==
    \/ CreateSplitTransaction
    \/ StoreSplitTransaction

SpecSplit == Init /\ [][NextSplit]_vars

\* C21: the tax service of crud.py (calculate_tax_amount,
\* calculate_net_amount), the ORM methods (Transaction.calculate_tax,
\* Transaction.calculate_net) and the fixture transaction_factory give the
\* same (tax, net) for the same gross >= 0 and rate in [0, 1): every stored
\* row, whichever of the three computed it, carries the pair the other two
\* compute.
C21_TaxSplitsAgree ==
    \A txn \in Stored :
        LET tax == calculate_tax_amount(txn.gross_amount, RateOf(txn))
        IN  /\ txn.tax_amount = tax
            /\ txn.net_amount = calculate_net_amount(txn.gross_amount, tax)
            /\ txn.tax_amount = calculate_tax(txn)
            /\ txn.net_amount = calculate_net(txn)

\* C22: the balance sheet's equity.current_year_profit of the snapshot of
\* month m equals the sum of the net_profit of months 1..m of the P&L report
\* of the same business and year; for m = 12 it equals the P&L's
\* ytd.net_profit.
C22_ProfitMatchesPL ==
    IsBS =>
        LET pl == PLReport(response.body.business_id, response.body.year)
        IN  /\ \A m \in 1..12 :
                response.body.months[m].equity.current_year_profit
                = SumOver([k \in 1..m |-> pl.months[k].net_profit], 1..m)
            /\ response.body.months[12].equity.current_year_profit = pl.ytd.net_profit

\* taxed income in January and a taxed expense on the leap day: the profit
\* of the January snapshot is the income, that of February and of every
\* later snapshot the income less the expense
C22_Witness ==
    /\ IsBS
    /\ response.body.year = 2024
    /\ response.body.months[1].equity.current_year_profit = 10810
    /\ response.body.months[2].equity.current_year_profit = 5405
    /\ response.body.months[12].equity.current_year_profit = 5405
    /\ PLReport(1, 2024).months[2].net_profit = -5405
    /\ PLReport(1, 2024).ytd.net_profit = 5405

\* ------------------------------------------------------------------------
\* Specification of the month windows: taxed income that is half a transfer,
\* dated on the first and last days of months and on either side of the
\* year's ends, and the three reports that query by month
\* ------------------------------------------------------------------------
WindowDates ==
    {Date(2023, 12, 31), Date(2024, 1, 1), Date(2024, 1, 31), Date(2024, 2, 1),
     Date(2024, 2, 29), Date(2024, 11, 30), Date(2024, 12, 1), Date(2024, 12, 31),
     Date(2025, 1, 1)}

WindowPayload(date) ==
    [PlainPayload(date, "in", <<CategoryLine(1, 5405), SpecialLine("transfer_in", 5405)>>)
        EXCEPT !.tax_rate_id = 1]

CreateWindowTransaction ==
    /\ Len(transactions) < MaxWindowTxns
    /\ \E date \in WindowDates : create_transaction(1, WindowPayload(date))

RequestWindowPL == \E year \in Years : generate_pl(1, year)

RequestWindowTaxReport == \E year \in Years : generate_tax_report(1, year)

RequestWindowTransfers ==
    \E year \in Years, month \in {0, 12} : validate_transfers(1, year, month)

NextWindow ==
    \/ CreateWindowTransaction
    \/ RequestWindowPL
    \/ RequestWindowTaxReport
    \/ RequestWindowTransfers

SpecWindow == Init /\ [][NextWindow]_vars

\* the transactions of the business dated d with first day of month <= d <
\* first day of month + 1, and Dec 1 <= d <= Dec 31 for month 12
WindowTxns(business_id, year, month) ==
    {i \in DOMAIN transactions :
        /\ accounts[transactions[i].account_id].business_id = business_id
        /\ Date(year, month, 1) <= transactions[i].date
        /\ IF month = 12 THEN transactions[i].date <= Date(year, 12, 31)
           ELSE transactions[i].date < Date(year, month + 1, 1)}

WindowIncome(business_id, year, month) ==
    SumAmounts({r \in LineRefs : /\ r[1] \in WindowTxns(business_id, year, month)
                                 /\ LineOf(r).category_id = 1})

\* C23: the monthly windows of the P&L, of the tax report and of the
\* transfer validation partition the year: month m of 1..11 selects exactly
\* the transactions dated d with first day of m <= d < first day of m+1 and
\* month 12 those with Dec 1 <= d <= Dec 31, so a transaction dated inside
\* the requested year is counted in exactly one month, the month of its
\* date, and a transaction dated outside the year in none.
C23_MonthWindowsPartition ==
    /\ IsPL =>
          \A m \in 1..12 :
              response.body.months[m].income.total
              = WindowIncome(response.body.business_id, response.body.year, m)
    /\ IsTaxReport =>
          \A m \in 1..12 :
              response.body.months[m].tax_collected
              = SumTax(WindowTxns(response.body.business_id, response.body.year, m))
    /\ IsTransferValidation =>
          \A m \in DOMAIN response.body.months :
              {e.transaction_id : e \in response.body.months[m].transfers_in}
              = WindowTxns(response.body.business_id, response.body.year, m)
    /\ \A year \in Years, i \in DOMAIN transactions :
          {m \in 1..12 : i \in WindowTxns(1, year, m)}
          = (IF YearOf(transactions[i].date) = year
             THEN {MonthOf(transactions[i].date)} ELSE {})

\* income dated Nov 30 and Dec 31 of 2024: the P&L of 2024 counts one in
\* November and the other in December
C23_WitnessPL ==
    /\ IsPL
    /\ response.body.year = 2024
    /\ {transactions[i].date : i \in DOMAIN transactions}
       = {Date(2024, 11, 30), Date(2024, 12, 31)}
    /\ response.body.months[11].income.total = 5405
    /\ response.body.months[12].income.total = 5405

\* income dated on the last day of 2023 and on the first day of 2024: the
\* tax report of 2024 counts only the second, in January
C23_WitnessTax ==
    /\ IsTaxReport
    /\ response.body.year = 2024
    /\ {transactions[i].date : i \in DOMAIN transactions}
       = {Date(2023, 12, 31), Date(2024, 1, 1)}
    /\ response.body.months[1].tax_collected = 10000
    /\ response.body.summary.total_tax_collected = 10000

\* transfers dated on the leap day and on Feb 1: the validation of 2024
\* lists both in February and none in January or March
C23_Witness ==
    /\ IsTransferValidation
    /\ response.body.year = 2024
    /\ DOMAIN response.body.months = 1..12
    /\ {transactions[i].date : i \in DOMAIN transactions}
       = {Date(2024, 2, 1), Date(2024, 2, 29)}
    /\ response.body.months[2].transfers_in_count = 2
    /\ response.body.months[1].transfers_in_count = 0
    /\ response.body.months[3].transfers_in_count = 0

\* every line of the transaction is a TRANSFER_IN or TRANSFER_OUT line, and
\* there is at least one
EntirelyTransfer(txn) ==
    /\ txn.lines # <<>>
    /\ \A k \in DOMAIN txn.lines :
           txn.lines[k].special_type \in {"transfer_in", "transfer_out"}

\* C24: validate_transactions emits an unbalanced_transfer finding, of
\* severity warning and at most once per transaction, exactly for the
\* transactions in scope that have at least one line and whose lines are
\* all TRANSFER_IN or TRANSFER_OUT lines; a transaction with no lines, with
\* a category line or with another special-type line gets none, and no such
\* finding is ever among the errors.
C24_UnbalancedTransferWarning ==
    IsTransactionValidation =>
        LET body == response.body
        IN  /\ \A i \in InScope(body) :
                Cardinality(FindingsFor(body.warnings, i, "unbalanced_transfer"))
                = (IF EntirelyTransfer(transactions[i]) THEN 1 ELSE 0)
            /\ \A k \in DOMAIN body.warnings :
                body.warnings[k].error_type = "unbalanced_transfer" =>
                    /\ body.warnings[k].severity = "warning"
                    /\ body.warnings[k].transaction_id \in InScope(body)
            /\ \A k \in DOMAIN body.errors :
                body.errors[k].error_type # "unbalanced_transfer"
            /\ body.warning_count = Len(body.warnings)

\* a payment of a transfer line and a category line, then one of two
\* transfer lines: one warning, for the second
C24_Witness ==
    /\ IsTransactionValidation
    /\ Len(transactions) = 2
    /\ Len(transactions[1].lines) = 2
    /\ transactions[1].lines[1].special_type = "transfer_out"
    /\ transactions[1].lines[2].category_id = 4
    /\ Len(transactions[2].lines) = 2
    /\ EntirelyTransfer(transactions[2])
    /\ InScope(response.body) = {1, 2}
    /\ response.body.warning_count = 1
    /\ response.body.warnings[1].transaction_id = 2
    /\ response.body.warnings[1].error_type = "unbalanced_transfer"
    /\ response.body.error_count = 0

\* ------------------------------------------------------------------------
\* crud.py: running balance
\* ------------------------------------------------------------------------
\* variant: the transactions of every account are totalled
AccountBalanceInfo_all_accounts(account_id) ==
    IF account_id \notin DOMAIN accounts THEN None
    ELSE LET own == DOMAIN transactions
             ins == {i \in own : transactions[i].direction = "in"}
             outs == own \ ins
             total_in == SumOver([i \in ins |-> transactions[i].gross_amount], ins)
             total_out == SumOver([i \in outs |-> transactions[i].gross_amount], outs)
         IN  Some([account_id |-> account_id,
                   opening_balance |-> accounts[account_id].opening_balance,
                   current_balance |-> accounts[account_id].opening_balance
                                       + total_in - total_out,
                   total_in |-> total_in,
                   total_out |-> total_out])
\* crud.get_account_balance: None when the account does not exist
AccountBalanceInfo(account_id) ==
    IF account_id \notin DOMAIN accounts THEN None
    ELSE LET own == {i \in DOMAIN transactions : transactions[i].account_id = account_id}
             ins == {i \in own : transactions[i].direction = "in"}
             outs == own \ ins
             total_in == SumOver([i \in ins |-> transactions[i].gross_amount], ins)
             total_out == SumOver([i \in outs |-> transactions[i].gross_amount], outs)
         IN  Some([account_id |-> account_id,
                   opening_balance |-> accounts[account_id].opening_balance,
                   current_balance |-> accounts[account_id].opening_balance
                                       + total_in - total_out,
                   total_in |-> total_in,
                   total_out |-> total_out])

\* routers/accounts.py get_account_balance
get_account_balance(account_id) ==
    /\ response' = (IF IsNone(AccountBalanceInfo(account_id))
                    THEN [op |-> "get_account_balance", status |-> "not_found",
                          body |-> account_id]
                    ELSE [op |-> "get_account_balance", status |-> "ok",
                          body |-> Value(AccountBalanceInfo(account_id))])
    /\ UNCHANGED <<tables, transactions, report_job>>

\* ------------------------------------------------------------------------
\* Specification of the running balance: income, expenses and transfers
\* posted to the two bank accounts, and the balance endpoint asked for
\* either account and for an account that does not exist
\* ------------------------------------------------------------------------
BalanceAccounts == {1, 2}

BalanceTemplates ==
    {[direction |-> "in", allocations |-> <<CategoryLine(1, 50000)>>],
     [direction |-> "out", allocations |-> <<CategoryLine(4, 20000)>>],
     [direction |-> "out", allocations |-> <<SpecialLine("transfer_out", 30000)>>],
     [direction |-> "in", allocations |-> <<SpecialLine("transfer_in", 30000)>>]}

PostBalanceTransaction ==
    /\ Len(transactions) < MaxBalanceTxns
    /\ \E account_id \in BalanceAccounts, t \in BalanceTemplates :
           create_transaction(account_id,
                              PlainPayload(Date(2024, 1, 15), t.direction, t.allocations))

RequestBalance == \E account_id \in BalanceAccounts \cup {9} : get_account_balance(account_id)

NextBalance == PostBalanceTransaction \/ RequestBalance

SpecBalance == Init /\ [][NextBalance]_vars

IsBalance == response.op = "get_account_balance" /\ response.status = "ok"

\* the balance the endpoint would return for the account now
CurrentBalance(account_id) == Value(AccountBalanceInfo(account_id)).current_balance

\* the ledger is a prefix followed by an OUT transfer of X on account a and
\* an IN transfer of the same X on account b
EndsWithTransfer(a, b) ==
    /\ Len(transactions) >= 2
    /\ LET out == transactions[Len(transactions) - 1]
           in == transactions[Len(transactions)]
       IN  /\ out.account_id = a /\ out.direction = "out"
           /\ in.account_id = b /\ in.direction = "in"
           /\ out.lines[1].special_type = "transfer_out"
           /\ in.lines[1].special_type = "transfer_in"
           /\ out.gross_amount = in.gross_amount

\* opening balance plus IN gross minus OUT gross over the given transactions
\* of the account
BalanceOver(account_id, ids) ==
    LET own == {i \in ids : transactions[i].account_id = account_id}
    IN  accounts[account_id].opening_balance
        + SumGross({i \in own : transactions[i].direction = "in"})
        - SumGross({i \in own : transactions[i].direction = "out"})

\* C25: after any sequence of posted transactions, the current balance the
\* balance endpoint returns for an account is opening_balance + the gross of
\* its IN transactions - the gross of its OUT transactions, whatever was
\* posted to other accounts; hence when an OUT transfer of X on account A
\* is posted together with an IN transfer of X on account B, balance(A) +
\* balance(B) is what it was before the two were posted.
C25_RunningBalance ==
    /\ IsBalance =>
          /\ response.body.current_balance
             = BalanceOver(response.body.account_id, DOMAIN transactions)
          /\ response.body.current_balance
             = response.body.opening_balance + response.body.total_in
               - response.body.total_out
    /\ \A a \in BalanceAccounts, b \in BalanceAccounts :
          (a # b /\ EndsWithTransfer(a, b)) =>
              CurrentBalance(a) + CurrentBalance(b)
              = BalanceOver(a, 1..(Len(transactions) - 2))
                + BalanceOver(b, 1..(Len(transactions) - 2))

\* opening 1000.00, one IN of 500.00 and one OUT of 200.00 on Bank Account
\* #1: its balance is 1300.00
C25_Witness ==
    /\ IsBalance
    /\ response.body.account_id = 1
    /\ response.body.opening_balance = 100000
    /\ response.body.total_in = 50000
    /\ response.body.total_out = 20000
    /\ response.body.current_balance = 130000

\* 300.00 transferred from Bank Account #1 to Bank Account #2: the first
\* shows 700.00, the two together still 1000.00
C25_WitnessTransfer ==
    /\ IsBalance
    /\ Len(transactions) = 2
    /\ EndsWithTransfer(1, 2)
    /\ response.body.account_id = 1
    /\ response.body.current_balance = 70000
    /\ CurrentBalance(1) + CurrentBalance(2) = 100000

\* ------------------------------------------------------------------------
\* reports.py: BalanceSheetService.generate_report as the request thread
\* runs it.  database.py gives every request its own Session on the one
\* SQLite engine and the endpoints are plain functions run by the thread
\* pool; generate_report issues its queries one after the other with no
\* lock and no transaction around them, so a commit of another request can
\* land between two of them.  report_job is the position of the running
\* computation; the steps are taken per monthly snapshot (the queries
\* inside one snapshot are kept together).  started_at and before record
\* the ledger the computation started from.
\* ------------------------------------------------------------------------
\* the lookup of the business and _calculate_opening_retained_earnings
generate_report_begin(business_id, year) ==
    /\ report_job.status # "running"
    /\ IF business_id \notin DOMAIN businesses
       THEN /\ response' = [op |-> "generate_balance_sheet", status |-> "not_found",
                            body |-> NotFound(business_id)]
            /\ report_job' = IdleJob
       ELSE /\ report_job' =
                  [status |-> "running", business_id |-> business_id, year |-> year,
                   opening_retained_earnings |->
                       OpeningRetainedEarnings(business_id, year),
                   months |-> <<>>,
                   started_at |-> Len(transactions),
                   before |-> BalanceSheetReport(business_id, year)]
            /\ UNCHANGED response
    /\ UNCHANGED <<tables, transactions>>

\* one iteration of the loop over the months: _calculate_snapshot on the
\* ledger as it is now
generate_report_month ==
    /\ report_job.status = "running"
    /\ Len(report_job.months) < 12
    /\ LET month == Len(report_job.months) + 1
       IN  report_job' = [report_job EXCEPT
               !.months = Append(@, calculate_snapshot(
                                        report_job.business_id, report_job.year, month,
                                        AsOfDate(report_job.year, month),
                                        report_job.opening_retained_earnings))]
    /\ UNCHANGED <<tables, transactions, response>>

\* the validation loop and the return of the report
generate_report_return ==
    /\ report_job.status = "running"
    /\ Len(report_job.months) = 12
    /\ response' =
           [op |-> "generate_balance_sheet", status |-> "ok",
            body |-> [business_id |-> report_job.business_id,
                      year |-> report_job.year,
                      currency |-> businesses[report_job.business_id].currency,
                      months |-> report_job.months,
                      validation |-> [month \in 1..12 |->
                                         ValidationEntry(report_job.months[month])]]]
    /\ report_job' = [report_job EXCEPT !.status = "done"]
    /\ UNCHANGED <<tables, transactions>>

\* ------------------------------------------------------------------------
\* Specification of a balance sheet computed while transactions are
\* created: income and an asset purchase dated in January or in June,
\* committed before, between or after the monthly snapshots
\* ------------------------------------------------------------------------
RaceDates == {Date(2024, 1, 15), Date(2024, 6, 30)}

RaceTemplates ==
    {[direction |-> "in", allocations |-> <<CategoryLine(1, 10000)>>],
     [direction |-> "out", allocations |-> <<SpecialLine("asset_purchase", 30000)>>]}

CreateRaceTransaction ==
    /\ Len(transactions) < MaxRaceTxns
    /\ \E date \in RaceDates, t \in RaceTemplates :
           create_transaction(1, PlainPayload(date, t.direction, t.allocations))

BeginBalanceSheet ==
    \E business_id \in BusinessIds : generate_report_begin(business_id, 2024)

NextRace ==
    \/ CreateRaceTransaction
    \/ BeginBalanceSheet
    \/ generate_report_month
    \/ generate_report_return

SpecRace == Init /\ [][NextRace]_vars

\* the computation has returned and its report is the last response
ReportReturned == report_job.status = "done" /\ IsBS

\* C26: a balance sheet computed while at most one transaction of the
\* business is created equals the report on the ledger entirely before that
\* creation or the report on the ledger entirely after it, never a mix of
\* the two.
C26_ReportSerialized ==
    (ReportReturned /\ Len(transactions) - report_job.started_at <= 1) =>
        \/ response.body = report_job.before
        \/ response.body = BalanceSheetReport(report_job.business_id, report_job.year)

\* ------------------------------------------------------------------------
\* Specification of creation against validation: transactions accepted by
\* the create endpoint, over the gross amounts and rates of the tax-split
\* specification, then checked by validate_transactions
\* ------------------------------------------------------------------------
CreateAcceptedTransaction ==
    /\ Len(transactions) < MaxAcceptedTxns
    /\ \E gross \in TaxGrossAmounts, rate_id \in DOMAIN tax_rates \cup {0} :
           router_create_transaction(1, TaxPayload(gross, rate_id))

ValidateAccepted ==
    \E today \in WallClock : validate_transactions(1, 0, 0, today)

NextAccepted == CreateAcceptedTransaction \/ ValidateAccepted

SpecAccepted == Init /\ [][NextAccepted]_vars

\* C27: a transaction accepted by the create-transaction endpoint
\* (allocations that sum to gross_amount within 0.01, tax derived from the
\* transaction's tax rate, whatever the rate in [0, 1)) gets neither a
\* missing_allocation nor an allocation_mismatch error from
\* validate_transactions.
C27_AcceptedIsValid ==
    IsTransactionValidation =>
        \A k \in DOMAIN response.body.errors :
            response.body.errors[k].error_type
            \notin {"missing_allocation", "allocation_mismatch"}

\* ------------------------------------------------------------------------
\* Specification of gross against lines: transactions created through the
\* create endpoint, then updated through the update endpoint with a new
\* gross amount, new allocations, both or neither
\* ------------------------------------------------------------------------
\* one category allocation of the whole amount, or the amount in two parts
MatchedAllocations ==
    {<<CategoryLine(1, amount)>> : amount \in LineGross \cup {1}}
    \cup {<<CategoryLine(1, 6000), CategoryLine(2, 4000)>>}

MatchedUpdate(gross, allocations) ==
    [date |-> None, direction |-> None, gross_amount |-> gross,
     tax_rate_id |-> None, is_reconciled |-> None, allocations |-> allocations]

CreateMatchedTransaction ==
    /\ Len(transactions) < MaxMatchedTxns
    /\ \E allocations \in MatchedAllocations :
           router_create_transaction(
               1, PlainPayload(Date(2024, 1, 15), "in", allocations))

UpdateMatchedTransaction ==
    \E id \in DOMAIN transactions,
       gross \in {None} \cup {Some(g) : g \in LineGross \cup {0}},
       allocations \in {None} \cup {Some(a) : a \in MatchedAllocations} :
        router_update_transaction(id, MatchedUpdate(gross, allocations))

NextMatched == CreateMatchedTransaction \/ UpdateMatchedTransaction

SpecMatched == Init /\ [][NextMatched]_vars

\* C28: after any sequence of create and update operations through the
\* transaction endpoints, the line amounts of every stored transaction sum
\* to its current gross_amount within 0.01, also after an update that
\* changes gross_amount without new allocations or that supplies
\* allocations without gross_amount.
C28_LinesMatchGross ==
    \A txn \in Stored :
        Abs(SumAllocations(txn.lines) - txn.gross_amount) <= 1

\* every transaction of the business is dated within the year and has a
\* tax_amount >= 0
TaxedWithinYear(business_id, year) ==
    \A i \in TransactionsOfBusiness(business_id) :
        /\ YearOf(transactions[i].date) = year
        /\ transactions[i].tax_amount >= 0

\* C29: for a ledger whose transactions are all dated within year Y and all
\* have tax_amount >= 0, the balance sheet's liabilities.tax_payable.vat of
\* month m equals max(0, sum over k = 1..m of the net_tax_payable of month k
\* in the tax report of Y), for every m in 1..12.
C29_VatMatchesTaxReport ==
    (IsBS /\ TaxedWithinYear(response.body.business_id, response.body.year)) =>
        LET tax == TaxReport(response.body.business_id, response.body.year)
        IN  \A m \in 1..12 :
                LET net == SumOver([k \in 1..m |-> tax.months[k].net_tax_payable], 1..m)
                IN  response.body.months[m].liabilities.tax_payable.vat
                    = (IF net > 0 THEN net ELSE 0)

\* tax paid on a January expense, then tax collected on leap-day income and
\* nothing else: January is refundable and shows 0, February shows the
\* difference
C29_Witness ==
    /\ IsBS
    /\ response.body.year = 2024
    /\ Len(transactions) = 2
    /\ TaxedWithinYear(1, 2024)
    /\ TaxReport(1, 2024).months[1].net_tax_payable = -5000
    /\ TaxReport(1, 2024).months[2].net_tax_payable = 10000
    /\ response.body.months[1].liabilities.tax_payable.vat = 0
    /\ response.body.months[2].liabilities.tax_payable.vat = 5000
    /\ response.body.months[12].liabilities.tax_payable.vat = 5000

\* ------------------------------------------------------------------------
\* crud.py and routers/settings.py: businesses and tax rates
\* ------------------------------------------------------------------------
\* crud.create_business: the business, then its default categories (the
\* four heads kept by this model) and its three default accounts
create_business(business) ==
    LET id == NextId(businesses)
    IN  /\ businesses' = Append(businesses, [currency |-> business.currency])
        /\ categories' = categories \o
               <<[business_id |-> id, code |-> "head_1", type |-> "income"],
                 [business_id |-> id, code |-> "head_2", type |-> "income"],
                 [business_id |-> id, code |-> "head_6", type |-> "cogs"],
                 [business_id |-> id, code |-> "head_12", type |-> "expense"]>>
        /\ accounts' = accounts \o
               <<[business_id |-> id, type |-> "bank", opening_balance |-> 0],
                 [business_id |-> id, type |-> "bank", opening_balance |-> 0],
                 [business_id |-> id, type |-> "credit_card", opening_balance |-> 0]>>
        /\ response' = [op |-> "create_business", status |-> "ok", body |-> id]
        /\ UNCHANGED <<tax_rates, transactions, report_job>>

\* create_tax_rate_settings: 404 unless the business exists, then
\* crud.create_tax_rate stores name and rate only
create_tax_rate(business_id, tax_rate) ==
    /\ IF business_id \notin DOMAIN businesses
       THEN /\ response' = [op |-> "create_tax_rate", status |-> "not_found",
                            body |-> business_id]
            /\ UNCHANGED tax_rates
       ELSE /\ tax_rates' = Append(tax_rates, [business_id |-> business_id,
                                               rate |-> tax_rate.rate,
                                               is_default |-> FALSE])
            /\ response' = [op |-> "create_tax_rate", status |-> "ok",
                            body |-> NextId(tax_rates)]
    /\ UNCHANGED <<businesses, accounts, categories, transactions, report_job>>

\* update_tax_rate_settings: 404 unless the rate exists, then
\* crud.update_tax_rate copies name and rate; updates.is_default and
\* updates.is_archived are not read
update_tax_rate(tax_rate_id, updates) ==
    /\ IF tax_rate_id \notin DOMAIN tax_rates
       THEN /\ response' = [op |-> "update_tax_rate", status |-> "not_found",
                            body |-> tax_rate_id]
            /\ UNCHANGED tax_rates
       ELSE /\ tax_rates' = [tax_rates EXCEPT
                   ![tax_rate_id].rate = IF IsNone(updates.rate) THEN @
                                         ELSE Value(updates.rate)]
            /\ response' = [op |-> "update_tax_rate", status |-> "ok",
                            body |-> tax_rate_id]
    /\ UNCHANGED <<businesses, accounts, categories, transactions, report_job>>

\* the UPDATE that clears is_default on the rates of the business
ClearedDefaults(business_id) ==
    [id \in DOMAIN tax_rates |->
        IF tax_rates[id].business_id = business_id
        THEN [tax_rates[id] EXCEPT !.is_default = FALSE]
        ELSE tax_rates[id]]

\* variant: the existing default is not cleared
set_default_tax_rate_keep_old(business_id, tax_rate_id) ==
    /\ IF business_id \notin DOMAIN businesses
       THEN /\ response' = [op |-> "set_default_tax_rate", status |-> "not_found",
                            body |-> [business_id |-> business_id,
                                      tax_rate_id |-> tax_rate_id]]
            /\ UNCHANGED tax_rates
       ELSE LET tax_rate == get_tax_rate(tax_rate_id)
            IN  IF IsNone(tax_rate) \/ Value(tax_rate).business_id # business_id
                THEN /\ response' = [op |-> "set_default_tax_rate",
                                     status |-> "not_found",
                                     body |-> [business_id |-> business_id,
                                               tax_rate_id |-> tax_rate_id]]
                     /\ UNCHANGED tax_rates
                ELSE /\ tax_rates' = [tax_rates EXCEPT ![tax_rate_id].is_default = TRUE]
                     /\ response' = [op |-> "set_default_tax_rate", status |-> "ok",
                                     body |-> [business_id |-> business_id,
                                               tax_rate_id |-> tax_rate_id]]
    /\ UNCHANGED <<businesses, accounts, categories, transactions, report_job>>
\* set_default_tax_rate: 404 unless the business exists; the defaults of
\* the business are cleared in the session; if the rate is missing or of
\* another business the handler raises before db.commit() and get_db closes
\* the session, which rolls the clearing back; otherwise the rate is marked
\* and the session committed
set_default_tax_rate(business_id, tax_rate_id) ==
    /\ IF business_id \notin DOMAIN businesses
       THEN /\ response' = [op |-> "set_default_tax_rate", status |-> "not_found",
                            body |-> [business_id |-> business_id,
                                      tax_rate_id |-> tax_rate_id]]
            /\ UNCHANGED tax_rates
       ELSE LET cleared == ClearedDefaults(business_id)
                tax_rate == get_tax_rate(tax_rate_id)
            IN  IF IsNone(tax_rate) \/ Value(tax_rate).business_id # business_id
                THEN /\ response' = [op |-> "set_default_tax_rate",
                                     status |-> "not_found",
                                     body |-> [business_id |-> business_id,
                                               tax_rate_id |-> tax_rate_id]]
                     /\ UNCHANGED tax_rates
                ELSE /\ tax_rates' = [cleared EXCEPT ![tax_rate_id].is_default = TRUE]
                     /\ response' = [op |-> "set_default_tax_rate", status |-> "ok",
                                     body |-> [business_id |-> business_id,
                                               tax_rate_id |-> tax_rate_id]]
    /\ UNCHANGED <<businesses, accounts, categories, transactions, report_job>>

\* ------------------------------------------------------------------------
\* Specification of the default tax rate: a second business, tax rates
\* created for either business, updates that try to set is_default, and
\* set-default requests naming a rate of the business, a rate of the other
\* business or no rate at all
\* ------------------------------------------------------------------------
CreateBusiness ==
    /\ Len(businesses) < MaxBusinesses
    /\ create_business([currency |-> "EUR"])

CreateTaxRate ==
    /\ Len(tax_rates) < MaxTaxRates
    /\ \E business_id \in BusinessIds : create_tax_rate(business_id, [rate |-> 770])

UpdateTaxRate ==
    \E tax_rate_id \in {1, 6}, is_default \in {None, Some(TRUE)} :
        update_tax_rate(tax_rate_id, [rate |-> Some(260), is_default |-> is_default])

SetDefaultTaxRate ==
    \E business_id \in BusinessIds, tax_rate_id \in {1, 2, 6, 7} :
        set_default_tax_rate(business_id, tax_rate_id)

NextDefault ==
    \/ CreateBusiness
    \/ CreateTaxRate
    \/ UpdateTaxRate
    \/ SetDefaultTaxRate

SpecDefault == Init /\ [][NextDefault]_vars

\* the default rates of the business
DefaultsOf(business_id) ==
    {id \in DOMAIN tax_rates : /\ tax_rates[id].business_id = business_id
                               /\ tax_rates[id].is_default}

IsSetDefault == response.op = "set_default_tax_rate"

AtMostOneDefault ==
    \A business_id \in DOMAIN businesses : Cardinality(DefaultsOf(business_id)) <= 1

RequestedIsDefault ==
    (IsSetDefault /\ response.status = "ok") =>
        DefaultsOf(response.body.business_id) = {response.body.tax_rate_id}

\* a step that ends a set-default request with a failure changes no rate
FailedSetKeepsDefaults ==
    (response'.op = "set_default_tax_rate" /\ response'.status = "not_found")
        => tax_rates' = tax_rates

\* C30: after any sequence of create_tax_rate, update_tax_rate and
\* set_default_tax_rate calls, each business has at most one tax rate with
\* is_default = true; a successful set_default_tax_rate leaves exactly the
\* requested rate as the default of the business; and a set_default_tax_rate
\* that fails because the rate is not one of the business's leaves the
\* default committed before it unchanged.
C30_SingleDefault ==
    /\ [](AtMostOneDefault /\ RequestedIsDefault)
    /\ [][FailedSetKeepsDefaults]_vars

\* rate 1 is the default of business 1 and rate 6 belongs to business 2:
\* asking for rate 6 as the default of business 1 fails and rate 1 stays
C30_Witness ==
    /\ IsSetDefault
    /\ response.status = "not_found"
    /\ response.body = [business_id |-> 1, tax_rate_id |-> 6]
    /\ 6 \in DOMAIN tax_rates
    /\ tax_rates[6].business_id = 2
    /\ DefaultsOf(1) = {1}

====
